---------------------------- MODULE Spec2Model ----------------------------
(***************************************************************************)
(* Trace reconstruction and privacy evaluation of recorded CAM messages    *)
(* (4_Code/scripts/python: metrics/trace.py, metrics/static_attacker.py,   *)
(* metrics/utilities.py, evaluate.py).                                     *)
(*                                                                         *)
(* Numbers.  The Python code computes the continuity test in floating      *)
(* point; the model computes it in fixed point:                            *)
(*   - longitude / latitude stay in the CAM's integer unit (1e-7 degree,   *)
(*     the unit the code converts with `* 10e-8`);                         *)
(*   - travelled distances are in micrometres, deviations in millimetres;  *)
(*   - headings are decidegrees, and the displacement is decomposed for    *)
(*     the four cardinal headings (sin and cos in {-1, 0, 1});             *)
(*   - positions lie at the equator, where cos(latitude) = 1 to 1e-8.      *)
(* Rounding is below 2 cm, the tolerance is 3 m, and no input of the model  *)
(* lies within 10 cm of the tolerance.                                      *)
(* A ratio (Python's true division of two ints) is a record [num, den].    *)
(***************************************************************************)
EXTENDS Integers, Sequences, FiniteSets, TLC

VARIABLES
    \* metrics/trace.py, metrics/static_attacker.py
    cams,               \* the CAMs build_routes has iterated over so far
    vehicles,           \* allow-list given to build_routes (<<>> is None or [])
    static_vehicles,    \* list[VehicleConstantId]
    dynamic_vehicles,   \* list[VehicleDynamicId]
    phase,              \* "build" | "traced" | "evaluated"
    traces,             \* list[VehicleTrace] returned by get_vehicle_traces
    tracking_successes, \* per trace: result of write_success_rate
    max_vehicles,       \* the max_vehicles argument of get_vehicle_traces: <<>> is None
    \* one call of VehicleDynamicId.compare_position
    probe,              \* <<[self, cam]>>: the estimated route and the CAM compared
    probe_result,       \* <<>> before the call, then <<the returned bool>>
    \* evaluate.py: main
    pc,                 \* position in main
    cam_csv_exists,     \* os.path.exists(cam_csv)
    cfg_exists,         \* os.path.exists(cfg_path) in get_config
    input_ok,           \* the CAM file is read and traced without an error
    args,               \* the addons whose evaluate_* argument is set
    raising,            \* the addons whose evaluate function raises an Exception
    addon_idx,          \* index of the next entry of `addons`
    invoked,            \* names of the addons whose evaluate_func was called
    stdout,             \* what main printed about the addons
    \* metrics/utilities.py: parse_cam_csv
    csv_rows,           \* rows csv.reader yields after the header
    parse_state,        \* "reading" | "returned" | "raised"
    parsed,             \* the CAMs built so far
    \* metrics/utilities.py: remove_duplicate_cam
    cam_csv,            \* content of the CAM file, a sequence of characters
    csv_history,        \* the content before and after every run
    \* metrics/degree_of_anonymity.py
    anon_cams,          \* the CAMs calculate_anonymity_set has iterated over
    threshold,          \* args.anonymity_cam_purge_threshold
    anonymity_set,      \* the dict, as its items in insertion order
    last_purge_timestamp,
    purge_log,          \* the CAMs, as indices of the stream, at which the purge pass ran
    anon_pc,            \* "scan" | "entropy" | "degree" | "done"
    eass,               \* <<>>, then <<the float calculate_entropy_and_eass returned>>
    degree_of_anon,     \* <<>>, then <<the value calculate_degree_of_anonymity returned>>
    \* metrics/pseudonym_consumption.py
    cons_cams,          \* the CAM list given to evaluate
    sim_time,           \* config['sim_time']
    cons_pc,            \* "calculate" | "write" | "written" | "raised"
    pseudonym_consumption, \* the dict calculate_pseudonym_consumption returned
    stats_file,         \* <<>>, then <<the statistics write_stats wrote>>
    \* one call of VehicleDynamicId.get_trace_duration
    duration_probe,     \* <<[original_positions, traced_positions]>>
    duration_result,    \* <<>> before the call, then <<the returned int>>
    \* metrics/static_attacker.py: evaluate with its parallel tasks
    eval_traces,        \* the list `traces` given to evaluate
    task_pc,            \* per trace: "start" | "plotted" | "done" | "raised"
    task_results,       \* per trace: <<>>, then <<the float evaluate_trace returned>>
    written_files,      \* the files written by the tasks: [dir, name, by]
    completion_order,   \* the tasks in the order in which they returned
    eval_pc,            \* "parallel" | "written" | "ZeroDivisionError"
    collected,          \* the list tracking_successes returned by parallel()
    overall             \* <<>>, then <<the overall tracking success written>>

trace_vars == <<cams, vehicles, static_vehicles, dynamic_vehicles, phase,
                traces, tracking_successes, max_vehicles>>

probe_vars == <<probe, probe_result>>

main_vars == <<pc, cam_csv_exists, cfg_exists, input_ok, args, raising, addon_idx,
               invoked, stdout>>

parse_vars == <<csv_rows, parse_state, parsed>>

dedup_vars == <<cam_csv, csv_history>>

anon_vars == <<anon_cams, threshold, anonymity_set, last_purge_timestamp, purge_log,
               anon_pc,
               eass, degree_of_anon>>

cons_vars == <<cons_cams, sim_time, cons_pc, pseudonym_consumption, stats_file>>

duration_vars == <<duration_probe, duration_result>>

eval_vars == <<eval_traces, task_pc, task_results, written_files, completion_order,
               eval_pc, collected, overall>>

metric_vars == <<anon_vars, cons_vars, duration_vars, eval_vars>>

vars == <<trace_vars, probe_vars, main_vars, parse_vars, dedup_vars, metric_vars>>

(***************************************************************************)
(* Bounds and input sets                                                   *)
(***************************************************************************)
MaxCams == 4

Timestamps == {0, 100, 200}
StaticIds == {1, 2}
PseudoIds == {7, 9}
Longitudes == {0, 900}

Speeds == {0, 10000}
Headings == {0, 900, 1800, 2700}

\* two standing vehicles
CamInputs ==
    [timestamp : Timestamps, static_id : StaticIds, pseudo_id : PseudoIds,
     longitude : Longitudes, latitude : {0}, width : {180}, length : {450},
     speed : {0}, heading : {900}]

\* one vehicle, standing or driving east at 100 m/s (10 m in 100 ms)
MotionCamInputs ==
    [timestamp : Timestamps, static_id : {1}, pseudo_id : PseudoIds,
     longitude : Longitudes, latitude : {0}, width : {180}, length : {450},
     speed : Speeds, heading : {900}]

\* one standing vehicle whose CAMs report one of two widths
ShapeCamInputs ==
    [timestamp : {0, 100}, static_id : {1}, pseudo_id : PseudoIds,
     longitude : Longitudes, latitude : {0}, width : {180, 200}, length : {450},
     speed : {0}, heading : {900}]

\* two standing vehicles, two timestamps
CorrelateCamInputs ==
    [timestamp : {0, 100}, static_id : StaticIds, pseudo_id : PseudoIds,
     longitude : Longitudes, latitude : {0}, width : {180}, length : {450},
     speed : {0}, heading : {900}]

\* --max-vehicles: absent, or a positive integer
MaxVehicleInputs == {<<>>, <<1>>}

\* two standing vehicles, two timestamps in any order
AnyOrderCamInputs ==
    [timestamp : {0, 100}, static_id : StaticIds, pseudo_id : PseudoIds,
     longitude : Longitudes, latitude : {0}, width : {180}, length : {450},
     speed : {0}, heading : {900}]

\* the state of an estimated route and a CAM, for compare_position alone
ProbeCamInputs ==
    [timestamp : Timestamps, static_id : {1}, pseudo_id : {7},
     longitude : Longitudes, latitude : Longitudes, width : {180}, length : {450},
     speed : Speeds, heading : Headings]

AllowLists == {<<>>, <<1>>}

(***************************************************************************)
(* Helpers                                                                 *)
(***************************************************************************)
Last(s) == s[Len(s)]

Range(s) == {s[i] : i \in 1..Len(s)}

Abs(x) == IF x < 0 THEN -x ELSE x

Min(a, b) == IF a < b THEN a ELSE b

\* floor of the square root, by bisection
RECURSIVE ISqrtIn(_, _, _)
ISqrtIn(n, lo, hi) ==
    IF hi - lo <= 1 THEN lo
    ELSE LET mid == (lo + hi) \div 2
         IN  IF mid * mid <= n THEN ISqrtIn(n, mid, hi) ELSE ISqrtIn(n, lo, mid)

ISqrt(n) == ISqrtIn(n, 0, 46341)

(***************************************************************************)
(* metrics/trace.py: constants                                             *)
(***************************************************************************)
EARTH_RADIUS == 6371            \* km
POS_ERR_TOLERANCE == 3000       \* 0.003 km, in mm
HEADING_TOLERANCE == 1080       \* pi * 3 / 5 rad, in decidegrees

\* micrometres on the ground per 1e-7 degree: R * pi / 180 * 1e-7 km
UmPerUnit == (EARTH_RADIUS * 17453) \div 10000

\* deviations beyond this (mm) are reported by their larger component
FarMm == 30000

(***************************************************************************)
(* metrics/types.py                                                        *)
(***************************************************************************)
Position(longitude, latitude, timestamp) ==
    [longitude |-> longitude, latitude |-> latitude, timestamp |-> timestamp]

\* Position.__eq__: longitude and latitude only, the timestamp is ignored
PositionEq(a, b) == a.longitude = b.longitude /\ a.latitude = b.latitude

(***************************************************************************)
(* metrics/trace.py: class VehicleDynamicId (estimated routes)             *)
(***************************************************************************)
VehicleDynamicId(cam) ==
    [pseudo_id  |-> <<cam.pseudo_id>>,
     static_id  |-> cam.static_id,
     width      |-> cam.width,
     length     |-> cam.length,
     longitude  |-> <<cam.longitude>>,
     latitude   |-> <<cam.latitude>>,
     speed      |-> <<cam.speed>>,
     heading    |-> <<cam.heading>>,
     timestamps |-> <<cam.timestamp>>,
     duration   |-> 0]

\* any pseudonym the route ever had is recognised
compare_id_any(self, new_id) == new_id \in Range(self.pseudo_id)

compare_id(self, new_id) == Last(self.pseudo_id) = new_id

\* the comparison without the width
compare_parameters_length_only(self, length_new, width_new) ==
    length_new = self.length

compare_parameters(self, length_new, width_new) ==
    length_new = self.length /\ width_new = self.width

\* cos and sin of a heading given in decidegrees (cardinal headings)
CosHeading(h) ==
    CASE h % 3600 = 0    -> 1
      [] h % 3600 = 900  -> 0
      [] h % 3600 = 1800 -> -1
      [] h % 3600 = 2700 -> 0

SinHeading(h) ==
    CASE h % 3600 = 0    -> 0
      [] h % 3600 = 900  -> 1
      [] h % 3600 = 1800 -> 0
      [] h % 3600 = 2700 -> -1

\* dy = sin(pi/2 - heading) * dist, dx = cos(pi/2 - heading) * dist  (micrometres)
dy_dx_from_distance_and_heading(dist, heading) ==
    [dy |-> CosHeading(heading) * dist, dx |-> SinHeading(heading) * dist]

\* latitude + (dy / EARTH_RADIUS) * (180 / pi), in 1e-7 degree
compute_new_lat(latitude, dy) == latitude + (dy \div UmPerUnit)

\* longitude + (dx / EARTH_RADIUS) * (180 / pi) / cos(latitude), at the equator
compute_new_long(longitude, latitude, dx) == longitude + (dx \div UmPerUnit)

\* Haversine distance of two points some metres apart, in mm
geo_distance(latitude1, longitude1, latitude2, longitude2) ==
    LET d_lat == Abs(((latitude2 - latitude1) * UmPerUnit) \div 1000)
        d_lon == Abs(((longitude2 - longitude1) * UmPerUnit) \div 1000)
    IN  IF d_lat > FarMm \/ d_lon > FarMm
        THEN (IF d_lat > d_lon THEN d_lat ELSE d_lon)
        ELSE ISqrt(d_lat * d_lat + d_lon * d_lon)

\* mutant: the heading difference is not wrapped into a half turn
HeadingDiff_Unwrapped(heading, heading_2) == heading_2 - heading

\* the difference wrapped into a full turn, [-pi, pi)
HeadingDiff_FullTurn(heading, heading_2) ==
    (((heading_2 - heading) + 1800) % 3600) - 1800

\* (((heading_2 - heading) + pi / 2) % pi) - pi / 2, in decidegrees
HeadingDiff(heading, heading_2) == (((heading_2 - heading) + 900) % 1800) - 900

PositionDeviation(self, cam) ==
    LET delta_t == cam.timestamp - Last(self.timestamps)     \* ms
        \* velocity * t / 2 with velocity in m/s and t in s, as micrometres
        dist   == Last(self.speed) * delta_t * 5
        dist_2 == cam.speed * delta_t * 5
        d1 == dy_dx_from_distance_and_heading(dist, Last(self.heading))
        d2 == dy_dx_from_distance_and_heading(dist_2, cam.heading)
        dx == d1.dx + d2.dx
        dy == d1.dy + d2.dy
        estimated_longitude ==
            compute_new_long(Last(self.longitude), Last(self.latitude), dx)
        estimated_latitude == compute_new_lat(Last(self.latitude), dy)
    IN  geo_distance(cam.latitude, cam.longitude,
                     estimated_latitude, estimated_longitude)

\* mutant: the heading test decides alone, whatever the position deviation
compare_position_heading_only(self, cam) ==
    LET diff == HeadingDiff(Last(self.heading), cam.heading)
    IN  -HEADING_TOLERANCE < diff /\ diff < HEADING_TOLERANCE

compare_position(self, cam) ==
    LET position_deviation == PositionDeviation(self, cam)
        diff == HeadingDiff(Last(self.heading), cam.heading)
        heading_in_constraint ==
            IF position_deviation < POS_ERR_TOLERANCE
            THEN -HEADING_TOLERANCE < diff /\ diff < HEADING_TOLERANCE
            ELSE FALSE
    IN  position_deviation < POS_ERR_TOLERANCE /\ heading_in_constraint

\* sum of the original trace's timestamp deltas up to the first index at
\* which traced and original position differ
RECURSIVE TraceDurationFrom(_, _, _, _)
TraceDurationFrom(original_positions, traced_positions, i, duration) ==
    IF i > Min(Len(traced_positions), Len(original_positions))
    THEN duration
    ELSE IF ~PositionEq(traced_positions[i], original_positions[i])
         THEN duration
         ELSE TraceDurationFrom(original_positions, traced_positions, i + 1,
                  duration + (original_positions[i].timestamp
                              - original_positions[i - 1].timestamp))

\* mutant: `duration += new_timestamp`, the old timestamp is not subtracted
RECURSIVE TraceDurationFrom_NoDelta(_, _, _, _)
TraceDurationFrom_NoDelta(original_positions, traced_positions, i, duration) ==
    IF i > Min(Len(traced_positions), Len(original_positions))
    THEN duration
    ELSE IF ~PositionEq(traced_positions[i], original_positions[i])
         THEN duration
         ELSE TraceDurationFrom_NoDelta(original_positions, traced_positions,
                  i + 1, duration + original_positions[i].timestamp)

get_trace_duration_no_delta(original_positions, traced_positions) ==
    TraceDurationFrom_NoDelta(original_positions, traced_positions, 2, 0)

\* range(1, min(len(traced), len(original))) is 2..min in 1-based indices
get_trace_duration(original_positions, traced_positions) ==
    TraceDurationFrom(original_positions, traced_positions, 2, 0)

\* the duration is the span between the earliest and the latest timestamp
update_parameters_span(self, cam) ==
    [self EXCEPT
        !.speed      = Append(@, cam.speed),
        !.heading    = Append(@, cam.heading),
        !.longitude  = Append(@, cam.longitude),
        !.latitude   = Append(@, cam.latitude),
        !.pseudo_id  = Append(@, cam.pseudo_id),
        !.duration   = LET all == Range(self.timestamps) \cup {cam.timestamp}
                       IN  (CHOOSE t \in all : \A u \in all : u <= t)
                               - (CHOOSE t \in all : \A u \in all : t <= u),
        !.timestamps = Append(@, cam.timestamp)]

update_parameters(self, cam) ==
    [self EXCEPT
        !.speed      = Append(@, cam.speed),
        !.heading    = Append(@, cam.heading),
        !.longitude  = Append(@, cam.longitude),
        !.latitude   = Append(@, cam.latitude),
        !.pseudo_id  = Append(@, cam.pseudo_id),
        !.duration   = @ + (cam.timestamp - Last(self.timestamps)),
        !.timestamps = Append(@, cam.timestamp)]

get_positions(self) ==
    [i \in 1..Len(self.timestamps) |->
        Position(self.longitude[i], self.latitude[i], self.timestamps[i])]

(***************************************************************************)
(* metrics/trace.py: class VehicleConstantId (original routes)             *)
(***************************************************************************)
VehicleConstantId(static_id, longitude, latitude, timestamp) ==
    [static_id  |-> static_id,
     longitude  |-> <<longitude>>,
     latitude   |-> <<latitude>>,
     timestamps |-> <<timestamp>>,
     duration   |-> 0]

\* the duration grows by the size of the step, whatever its direction
try_update_parameters_abs_delta(self, longitude, latitude, timestamp) ==
    [self EXCEPT
        !.longitude  = Append(@, longitude),
        !.latitude   = Append(@, latitude),
        !.duration   = @ + (IF timestamp >= Last(self.timestamps)
                            THEN timestamp - Last(self.timestamps)
                            ELSE Last(self.timestamps) - timestamp),
        !.timestamps = Append(@, timestamp)]

\* the track after try_update_parameters returned True
try_update_parameters(self, longitude, latitude, timestamp) ==
    [self EXCEPT
        !.longitude  = Append(@, longitude),
        !.latitude   = Append(@, latitude),
        !.duration   = @ + (timestamp - Last(self.timestamps)),
        !.timestamps = Append(@, timestamp)]

(***************************************************************************)
(* metrics/trace.py: matching                                              *)
(***************************************************************************)
\* no original route is recognised
StaticMatches_None(cam, static_vehs) == {}

\* indices of the original routes whose static id is the CAM's
StaticMatches(cam, static_vehs) ==
    {i \in 1..Len(static_vehs) : static_vehs[i].static_id = cam.static_id}

\* static_vehicles after match_static_vehicle and the append in build_routes:
\* the first route with the CAM's static id is updated, else a new one is added
match_static_vehicle(cam, static_vehs) ==
    LET known == StaticMatches(cam, static_vehs)
    IN  IF known # {}
        THEN LET i == CHOOSE k \in known : \A j \in known : k <= j
             IN  [static_vehs EXCEPT ![i] =
                     try_update_parameters(@, cam.longitude, cam.latitude,
                                           cam.timestamp)]
        ELSE Append(static_vehs,
                    VehicleConstantId(cam.static_id, cam.longitude,
                                      cam.latitude, cam.timestamp))

\* mutant: the continuity test is made for routes of another shape
IsKnownVeh_ShapeNegated(vehicle_dynamic, cam) ==
    \/ compare_id(vehicle_dynamic, cam.pseudo_id)
    \/ /\ ~compare_parameters(vehicle_dynamic, cam.length, cam.width)
       /\ compare_position(vehicle_dynamic, cam)

\* the loop body's test of one estimated route
IsKnownVeh(vehicle_dynamic, cam) ==
    \/ compare_id(vehicle_dynamic, cam.pseudo_id)
    \/ /\ compare_parameters(vehicle_dynamic, cam.length, cam.width)
       /\ compare_position(vehicle_dynamic, cam)

\* the loop without its break: the last accepting route
MatchedIndex_Last(cam, dynamic_vehs) ==
    LET known == {i \in 1..Len(dynamic_vehs) : IsKnownVeh(dynamic_vehs[i], cam)}
    IN  IF known = {} THEN 0
        ELSE CHOOSE k \in known : \A j \in known : k >= j

\* index of the route the loop of match_dynamic_vehicle breaks at, 0 if none
MatchedIndex(cam, dynamic_vehs) ==
    LET known == {i \in 1..Len(dynamic_vehs) : IsKnownVeh(dynamic_vehs[i], cam)}
    IN  IF known = {} THEN 0
        ELSE CHOOSE k \in known : \A j \in known : k <= j

\* the loop without its break: every accepting route is updated
match_dynamic_vehicle_all_accepting(cam, dynamic_vehs) ==
    IF MatchedIndex(cam, dynamic_vehs) # 0
    THEN [i \in 1..Len(dynamic_vehs) |->
             IF IsKnownVeh(dynamic_vehs[i], cam)
             THEN update_parameters(dynamic_vehs[i], cam)
             ELSE dynamic_vehs[i]]
    ELSE Append(dynamic_vehs, VehicleDynamicId(cam))

\* dynamic_vehicles after match_dynamic_vehicle and the append in build_routes
match_dynamic_vehicle(cam, dynamic_vehs) ==
    LET i == MatchedIndex(cam, dynamic_vehs)
    IN  IF i # 0
        THEN [dynamic_vehs EXCEPT ![i] = update_parameters(@, cam)]
        ELSE Append(dynamic_vehs, VehicleDynamicId(cam))

\* the allow-list is ignored
Skipped_Never(cam, allow) == FALSE

\* `vehicles and cam.static_id not in vehicles`
Skipped(cam, allow) == Len(allow) > 0 /\ cam.static_id \notin Range(allow)

(***************************************************************************)
(* metrics/trace.py: get_vehicle_traces, after build_routes                *)
(***************************************************************************)
\* len(timestamps) instead of len(set(timestamps))
DistinctTimestamps_WithRepeats(track) == Len(track.timestamps)

DistinctTimestamps(track) == Cardinality(Range(track.timestamps))

ReconstructedTrace(original_trace, target_trace) ==
    [static_id |-> original_trace.static_id,
     pseudo_ids |-> target_trace.pseudo_id,
     positions |-> get_positions(target_trace),
     duration |-> get_trace_duration(get_positions(original_trace),
                                     get_positions(target_trace))]

\* the trace parts of one original route, in the order of dynamic_vehicles
RECURSIVE ReconstructedTraces(_, _, _)
ReconstructedTraces(original_trace, dynamic_vehs, i) ==
    IF i > Len(dynamic_vehs) THEN <<>>
    ELSE LET target_trace == dynamic_vehs[i]
             rest == ReconstructedTraces(original_trace, dynamic_vehs, i + 1)
         IN  IF \/ target_trace.static_id # original_trace.static_id
                \/ DistinctTimestamps(target_trace) <= 1
             THEN rest
             ELSE <<ReconstructedTrace(original_trace, target_trace)>> \o rest

VehicleTrace(original_trace, reconstructed_traces) ==
    [static_id |-> original_trace.static_id,
     original_trace |-> [static_id |-> original_trace.static_id,
                         positions |-> get_positions(original_trace),
                         duration |-> original_trace.duration],
     reconstructed_traces |-> reconstructed_traces]

RECURSIVE MatchedVehicles(_, _, _)
MatchedVehicles(static_vehs, dynamic_vehs, i) ==
    IF i > Len(static_vehs) THEN <<>>
    ELSE LET original_trace == static_vehs[i]
             rest == MatchedVehicles(static_vehs, dynamic_vehs, i + 1)
             parts == ReconstructedTraces(original_trace, dynamic_vehs, 1)
         IN  IF ~(DistinctTimestamps(original_trace) > 1) THEN rest
             ELSE IF parts = <<>> THEN rest
             ELSE <<VehicleTrace(original_trace, parts)>> \o rest

\* static_vehicles[:max_vehicles]; max_vehicles is <<>> for None, else <<n>>
Slice(s, max) ==
    IF max = <<>> THEN s
    ELSE SubSeq(s, 1, Min(max[1], Len(s)))

get_vehicle_traces(static_vehs, dynamic_vehs, max) ==
    MatchedVehicles(Slice(static_vehs, max), dynamic_vehs, 1)

(***************************************************************************)
(* metrics/static_attacker.py: write_success_rate                          *)
(***************************************************************************)
\* max_tracking_duration / original_trace.duration
write_success_rate(vehicle_trace) ==
    LET max_tracking_duration == vehicle_trace.reconstructed_traces[1].duration
    IN  [raised |-> IF vehicle_trace.original_trace.duration = 0
                    THEN "ZeroDivisionError" ELSE "",
         num |-> max_tracking_duration,
         den |-> vehicle_trace.original_trace.duration]

(***************************************************************************)
(* Actions: build_routes (one iteration of its loop), get_vehicle_traces,  *)
(* static_attacker.evaluate                                                *)
(***************************************************************************)
OtherThanTrace == <<probe_vars, main_vars, parse_vars, dedup_vars, metric_vars>>

TraceIdle ==
    /\ cams = <<>>
    /\ vehicles = <<>>
    /\ static_vehicles = <<>>
    /\ dynamic_vehicles = <<>>
    /\ phase = "idle"
    /\ traces = <<>>
    /\ tracking_successes = <<>>
    /\ max_vehicles = <<>>

ProbeIdle == probe = <<>> /\ probe_result = <<>>

TraceInit(allow_lists) ==
    /\ cams = <<>>
    /\ vehicles \in allow_lists
    /\ static_vehicles = <<>>
    /\ dynamic_vehicles = <<>>
    /\ phase = "build"
    /\ traces = <<>>
    /\ tracking_successes = <<>>
    /\ max_vehicles = <<>>

\* for cam in cams: a CAM outside the allow-list is skipped
BuildRoutesSkip(cam) ==
    /\ phase = "build"
    /\ Len(cams) < MaxCams
    /\ Skipped(cam, vehicles)
    /\ cams' = Append(cams, cam)
    /\ UNCHANGED <<vehicles, static_vehicles, dynamic_vehicles, phase, traces,
                   tracking_successes, max_vehicles, OtherThanTrace>>

\* for cam in cams: match the CAM against original and estimated routes
BuildRoutesStep(cam) ==
    /\ phase = "build"
    /\ Len(cams) < MaxCams
    /\ ~Skipped(cam, vehicles)
    /\ cams' = Append(cams, cam)
    /\ static_vehicles' = match_static_vehicle(cam, static_vehicles)
    /\ dynamic_vehicles' = match_dynamic_vehicle(cam, dynamic_vehicles)
    /\ UNCHANGED <<vehicles, phase, traces, tracking_successes, max_vehicles,
                   OtherThanTrace>>

\* the CAM list is exhausted: build_routes returns, the traces are matched
GetVehicleTraces(max) ==
    /\ phase = "build"
    /\ max_vehicles' = max
    /\ traces' = get_vehicle_traces(static_vehicles, dynamic_vehicles, max)
    /\ phase' = "traced"
    /\ UNCHANGED <<cams, vehicles, static_vehicles, dynamic_vehicles,
                   tracking_successes, OtherThanTrace>>

\* static_attacker.evaluate: evaluate_trace of every trace
EvaluateTraces ==
    /\ phase = "traced"
    /\ tracking_successes' =
           [i \in 1..Len(traces) |-> write_success_rate(traces[i])]
    /\ phase' = "evaluated"
    /\ UNCHANGED <<cams, vehicles, static_vehicles, dynamic_vehicles, traces,
                   max_vehicles, OtherThanTrace>>

\* the CAMs a stream with non-decreasing timestamps can continue with
Ordered(inputs) ==
    {cam \in inputs : cams = <<>> \/ cam.timestamp >= Last(cams).timestamp}

(***************************************************************************)
(* One call of compare_position                                            *)
(***************************************************************************)
ComparePosition ==
    /\ probe # <<>>
    /\ probe_result = <<>>
    /\ probe_result' = <<compare_position(probe[1].self, probe[1].cam)>>
    /\ UNCHANGED <<trace_vars, probe, main_vars, parse_vars, dedup_vars, metric_vars>>

(***************************************************************************)
(* evaluate.py: main                                                       *)
(***************************************************************************)
\* the list `addons`, in its order
addons == <<"Static Attacker", "Dynamic Attacker", "Degree of Anonymity",
            "Pseudonym Consumption">>

AddonNames == {addons[i] : i \in 1..Len(addons)}

MainIdle ==
    /\ pc = "idle"
    /\ cam_csv_exists = FALSE /\ cfg_exists = FALSE /\ input_ok = FALSE
    /\ args = {} /\ raising = {}
    /\ addon_idx = 0
    /\ invoked = <<>>
    /\ stdout = <<>>

MainInit ==
    /\ pc = "check_cam_csv"
    /\ cam_csv_exists \in BOOLEAN
    /\ cfg_exists \in BOOLEAN
    /\ input_ok \in BOOLEAN
    /\ args \in SUBSET AddonNames
    /\ raising \in SUBSET AddonNames
    /\ addon_idx = 1
    /\ invoked = <<>>
    /\ stdout = <<>>

OtherThanMain == <<trace_vars, probe_vars, parse_vars, dedup_vars, metric_vars>>

\* if os.path.exists(cam_csv): ... else: sys.exit(1)
CheckCamCsv ==
    /\ pc = "check_cam_csv"
    /\ pc' = IF cam_csv_exists THEN "load_cams" ELSE "exited"
    /\ UNCHANGED <<cam_csv_exists, cfg_exists, input_ok, args, raising,
                   addon_idx, invoked, stdout, OtherThanMain>>

\* remove_duplicate_cam, parse_cam_csv, print_cam_stats, get_vehicle_traces:
\* an error of any of them leaves main
LoadCams ==
    /\ pc = "load_cams"
    /\ pc' = IF input_ok THEN "get_config" ELSE "raised"
    /\ UNCHANGED <<cam_csv_exists, cfg_exists, input_ok, args, raising,
                   addon_idx, invoked, stdout, OtherThanMain>>

\* mutant: a missing config file is not noticed
GetConfig_NoCheck ==
    /\ pc = "get_config"
    /\ pc' = "addons"
    /\ UNCHANGED <<cam_csv_exists, cfg_exists, input_ok, args, raising,
                   addon_idx, invoked, stdout, OtherThanMain>>

\* get_config: raise Exception when the file is missing, else parse_config
GetConfig ==
    /\ pc = "get_config"
    /\ pc' = IF cfg_exists THEN "addons" ELSE "raised"
    /\ UNCHANGED <<cam_csv_exists, cfg_exists, input_ok, args, raising,
                   addon_idx, invoked, stdout, OtherThanMain>>

\* for addon in addons: if not args_dict[addon['arg']]: continue
SkipAddon ==
    /\ pc = "addons"
    /\ addon_idx <= Len(addons)
    /\ addons[addon_idx] \notin args
    /\ addon_idx' = addon_idx + 1
    /\ UNCHANGED <<pc, cam_csv_exists, cfg_exists, input_ok, args, raising,
                   invoked, stdout, OtherThanMain>>

\* mutant: no try/except around the call, the addon's exception leaves main
EvaluateAddon_NoCatch ==
    /\ pc = "addons"
    /\ addon_idx <= Len(addons)
    /\ addons[addon_idx] \in args
    /\ invoked' = Append(invoked, addons[addon_idx])
    /\ IF addons[addon_idx] \in raising
       THEN pc' = "raised" /\ stdout' = stdout
       ELSE pc' = pc /\ stdout' = Append(stdout, <<"Done.", addons[addon_idx]>>)
    /\ addon_idx' = addon_idx + 1
    /\ UNCHANGED <<cam_csv_exists, cfg_exists, input_ok, args, raising,
                   OtherThanMain>>

\* try: addon['evaluate_func'](...); print('Done.')
\* except Exception as e: print(f'Failed to evaluate {addon["name"]}.', e)
EvaluateAddon ==
    /\ pc = "addons"
    /\ addon_idx <= Len(addons)
    /\ addons[addon_idx] \in args
    /\ invoked' = Append(invoked, addons[addon_idx])
    /\ stdout' = Append(stdout,
                        IF addons[addon_idx] \in raising
                        THEN <<"Failed to evaluate", addons[addon_idx]>>
                        ELSE <<"Done.", addons[addon_idx]>>)
    /\ addon_idx' = addon_idx + 1
    /\ UNCHANGED <<pc, cam_csv_exists, cfg_exists, input_ok, args, raising,
                   OtherThanMain>>

\* print('\nEvaluation done.')
EvaluationDone ==
    /\ pc = "addons"
    /\ addon_idx > Len(addons)
    /\ stdout' = Append(stdout, <<"Evaluation done.", "">>)
    /\ pc' = "done"
    /\ UNCHANGED <<cam_csv_exists, cfg_exists, input_ok, args, raising,
                   addon_idx, invoked, OtherThanMain>>

(***************************************************************************)
(* metrics/utilities.py: CAM.from_csv, parse_cam_csv                       *)
(***************************************************************************)
Digits == <<"0", "1", "2", "3", "4", "5", "6", "7", "8", "9">>

IsDigit(ch) == \E d \in 1..10 : Digits[d] = ch

DigitValue(ch) == (CHOOSE d \in 1..10 : Digits[d] = ch) - 1

\* int(str) accepts an optional sign followed by digits (surrounding blanks
\* and underscores, which it also accepts, are not among the model's fields)
IsIntLiteral(field) ==
    LET body == IF field # <<>> /\ field[1] \in {"-", "+"} THEN Tail(field) ELSE field
    IN  body # <<>> /\ \A i \in 1..Len(body) : IsDigit(body[i])

RECURSIVE DigitsValue(_, _)
DigitsValue(body, acc) ==
    IF body = <<>> THEN acc
    ELSE DigitsValue(Tail(body), acc * 10 + DigitValue(body[1]))

\* int(field) of a field that is an integer literal
IntOf(field) ==
    IF field[1] = "-" THEN -DigitsValue(Tail(field), 0)
    ELSE IF field[1] = "+" THEN DigitsValue(Tail(field), 0)
    ELSE DigitsValue(field, 0)

\* CAM.from_csv raises: IndexError on csv_row[i] for a short row, ValueError
\* on int() of one of the first nine columns
FromCsvRaises(csv_row) ==
    \/ Len(csv_row) < 9
    \/ \E i \in 1..9 : ~IsIntLiteral(csv_row[i])

\* Timestamp, ServiceID, Pseudonym, Longitude, Latitude, Width, Length, Speed, Heading
from_csv(csv_row) ==
    [timestamp |-> IntOf(csv_row[1]), static_id |-> IntOf(csv_row[2]),
     pseudo_id |-> IntOf(csv_row[3]), longitude |-> IntOf(csv_row[4]),
     latitude |-> IntOf(csv_row[5]), width |-> IntOf(csv_row[6]),
     length |-> IntOf(csv_row[7]), speed |-> IntOf(csv_row[8]),
     heading |-> IntOf(csv_row[9])]

\* the fields a column can hold, and a well-formed row
FieldInputs == {<<"7">>, <<"-", "7">>, <<"1", "0">>, <<"x">>, <<>>, <<"1", ".", "5">>}

GoodRow == <<<<"1", "0", "0">>, <<"1">>, <<"7">>, <<"9", "0", "0">>, <<"0">>,
             <<"1", "8", "0">>, <<"4", "5", "0">>, <<"0">>, <<"9", "0", "0">>>>

\* a well-formed row with one column replaced, one column added, the last
\* column missing, and the row of a blank line
RowInputs ==
    {[GoodRow EXCEPT ![i] = f] : i \in 1..9, f \in FieldInputs}
        \cup {Append(GoodRow, f) : f \in FieldInputs}
        \cup {SubSeq(GoodRow, 1, 8), <<>>}

MaxRows == 2

ParseIdle == csv_rows = <<>> /\ parse_state = "idle" /\ parsed = <<>>

ParseInit ==
    /\ csv_rows \in UNION {[1..n -> RowInputs] : n \in 0..MaxRows}
    /\ parse_state = "reading"
    /\ parsed = <<>>

OtherThanParse == <<trace_vars, probe_vars, main_vars, dedup_vars, metric_vars>>

\* [CAM.from_csv(row) for row in reader]: the next row
ParseRow ==
    /\ parse_state = "reading"
    /\ Len(parsed) < Len(csv_rows)
    /\ LET row == csv_rows[Len(parsed) + 1]
       IN  IF FromCsvRaises(row)
           THEN parse_state' = "raised" /\ parsed' = parsed
           ELSE parse_state' = parse_state /\ parsed' = Append(parsed, from_csv(row))
    /\ UNCHANGED <<csv_rows, OtherThanParse>>

\* the reader is exhausted: the list is returned
ParseReturn ==
    /\ parse_state = "reading"
    /\ Len(parsed) = Len(csv_rows)
    /\ parse_state' = "returned"
    /\ UNCHANGED <<csv_rows, parsed, OtherThanParse>>

(***************************************************************************)
(* metrics/utilities.py: remove_duplicates_in_csv, remove_duplicate_cam    *)
(***************************************************************************)
MaxFileLen == 6
MaxRuns == 2

FileChars == {"a", "b", "\n"}

\* `for line in in_file`: every line keeps its newline; the last line of a
\* file that does not end in a newline has none
RECURSIVE SplitLines(_, _)
SplitLines(text, line) ==
    IF text = <<>> THEN (IF line = <<>> THEN <<>> ELSE <<line>>)
    ELSE IF text[1] = "\n"
         THEN <<Append(line, "\n")>> \o SplitLines(Tail(text), <<>>)
         ELSE SplitLines(Tail(text), Append(line, text[1]))

\* the loop over the lines: a line already in `seen` is skipped, any other
\* line is added to `seen` and written
RECURSIVE WriteUnseen(_, _, _)
WriteUnseen(lines, seen, out_file) ==
    IF lines = <<>> THEN out_file
    ELSE IF lines[1] \in seen
         THEN WriteUnseen(Tail(lines), seen, out_file)
         ELSE WriteUnseen(Tail(lines), seen \cup {lines[1]}, out_file \o lines[1])

\* mutant: `seen` holds the previous line only
RECURSIVE WriteUnseen_Adjacent(_, _, _)
WriteUnseen_Adjacent(lines, seen, out_file) ==
    IF lines = <<>> THEN out_file
    ELSE IF lines[1] \in seen
         THEN WriteUnseen_Adjacent(Tail(lines), seen, out_file)
         ELSE WriteUnseen_Adjacent(Tail(lines), {lines[1]}, out_file \o lines[1])

remove_duplicates_in_csv_adjacent(in_file) ==
    WriteUnseen_Adjacent(SplitLines(in_file, <<>>), {}, <<>>)

\* content of out_csv_file for the content of in_csv_file
remove_duplicates_in_csv(in_file) == WriteUnseen(SplitLines(in_file, <<>>), {}, <<>>)

DedupIdle == cam_csv = <<>> /\ csv_history = <<>>

DedupInit ==
    /\ cam_csv \in UNION {[1..n -> FileChars] : n \in 0..MaxFileLen}
    /\ csv_history = <<cam_csv>>

\* remove_duplicate_cam: the file is replaced by its deduplicated copy
RemoveDuplicateCam ==
    /\ csv_history # <<>>
    /\ Len(csv_history) <= MaxRuns
    /\ cam_csv' = remove_duplicates_in_csv(cam_csv)
    /\ csv_history' = Append(csv_history, cam_csv')
    /\ UNCHANGED <<trace_vars, probe_vars, main_vars, parse_vars, metric_vars>>

(***************************************************************************)
(* Python float (IEEE 754 binary64), as degree_of_anonymity.py uses it.    *)
(* A natural number of any size is a sequence of digits to the base 2^14,  *)
(* least significant digit first, <<>> for 0; a float is                   *)
(* [sign, m, e] with value (-1)^sign * m * 2^e, where m is 0 or has        *)
(* exactly MantBits bits.  Every operation rounds to nearest, ties to even.*)
(***************************************************************************)
DigitBits == 14
Base == 2^DigitBits
MantBits == 53

Max(S) == CHOOSE x \in S : \A y \in S : y <= x

BigNorm(a) == SubSeq(a, 1, Max({0} \cup {i \in 1..Len(a) : a[i] # 0}))

Digit(a, i) == IF i <= Len(a) THEN a[i] ELSE 0

\* a + b; the carry into digit i comes from a digit sum j < i that is at
\* least Base, handed on by digit sums of Base - 1
BigAdd(a, b) ==
    LET n == Max({Len(a), Len(b)})
        s == [i \in 1..(n + 1) |-> Digit(a, i) + Digit(b, i)]
        carry(i) == IF \E j \in 1..(i - 1) :
                           /\ s[j] >= Base
                           /\ \A k \in (j + 1)..(i - 1) : s[k] = Base - 1
                    THEN 1 ELSE 0
    IN  BigNorm([i \in 1..(n + 1) |-> (s[i] + carry(i)) % Base])

\* a - b for a >= b
BigSub(a, b) ==
    LET borrow(i) == IF \E j \in 1..(i - 1) :
                            /\ Digit(a, j) < Digit(b, j)
                            /\ \A k \in (j + 1)..(i - 1) : Digit(a, k) = Digit(b, k)
                     THEN 1 ELSE 0
    IN  BigNorm([i \in 1..Len(a) |->
                    (a[i] - Digit(b, i) - borrow(i) + Base) % Base])

\* -1, 0 or 1 as a is less than, equal to or greater than b
BigCmp(a, b) ==
    LET differ == {i \in 1..Max({Len(a), Len(b)}) : Digit(a, i) # Digit(b, i)}
    IN  IF differ = {} THEN 0
        ELSE IF Digit(a, Max(differ)) < Digit(b, Max(differ)) THEN -1 ELSE 1

BigShiftDigits(a, n) == IF a = <<>> THEN <<>> ELSE [i \in 1..n |-> 0] \o a

\* the number whose digit i is the natural number cols[i] < Base^2
BigOfColumns(cols) ==
    BigAdd(BigNorm([i \in 1..Len(cols) |-> cols[i] % Base]),
           BigShiftDigits(BigNorm([i \in 1..Len(cols) |-> cols[i] \div Base]), 1))

\* a * k for 0 <= k < Base
BigMulSmall(a, k) == BigOfColumns([i \in 1..Len(a) |-> a[i] * k])

RECURSIVE BigMulFrom(_, _, _)
BigMulFrom(a, b, i) ==
    IF i > Len(b) THEN <<>>
    ELSE BigAdd(BigShiftDigits(BigMulSmall(a, b[i]), i - 1), BigMulFrom(a, b, i + 1))

BigMul(a, b) == BigMulFrom(a, b, 1)

\* a * 2^n
BigTimesPow2(a, n) ==
    BigShiftDigits(BigMulSmall(a, 2^(n % DigitBits)), n \div DigitBits)

\* floor(a / 2^n)
BigDivPow2(a, n) ==
    LET d == n \div DigitBits
        t == n % DigitBits
    IN  BigNorm([i \in 1..(Len(a) - d) |->
                    (a[i + d] \div 2^t) + (Digit(a, i + d + 1) % 2^t) * 2^(DigitBits - t)])

\* the number of bits of a digit
BitLen(d) == Cardinality({k \in 0..(DigitBits - 1) : 2^k <= d})

BigBitLen(a) ==
    IF a = <<>> THEN 0 ELSE DigitBits * (Len(a) - 1) + BitLen(a[Len(a)])

\* bit j of a, bit 0 the least significant
BigBit(a, j) == (Digit(a, j \div DigitBits + 1) \div 2^(j % DigitBits)) % 2

\* floor(r / b) for r < b * Base, where the top digit of b is at least
\* Base / 2: the quotient of the leading digits is at most 2 too large
BigQuotientDigit(r, b) ==
    LET n    == Len(b)
        est  == (Digit(r, n + 1) * Base + Digit(r, n)) \div b[n]
        q0   == IF est > Base - 1 THEN Base - 1 ELSE est
        q1   == IF BigCmp(BigMulSmall(b, q0), r) > 0 THEN q0 - 1 ELSE q0
    IN  IF BigCmp(BigMulSmall(b, q1), r) > 0 THEN q1 - 1 ELSE q1

\* long division of a by b from digit i of a down, r the remainder of the
\* digits above i and q their quotient
RECURSIVE BigDivFrom(_, _, _, _, _)
BigDivFrom(a, b, i, r, q) ==
    LET rr == BigNorm(<<Digit(a, i)>> \o r)
        d  == BigQuotientDigit(rr, b)
    IN  IF i = 0 THEN [q |-> q, r |-> r]
        ELSE IF d = 0 THEN BigDivFrom(a, b, i - 1, rr, <<0>> \o q)
        ELSE BigDivFrom(a, b, i - 1, BigSub(rr, BigMulSmall(b, d)), <<d>> \o q)

\* quotient of a by b and whether the division left no remainder, b # 0;
\* the top Len(b) - 1 digits of a are less than b and start as remainder
BigDivMod(a, b) ==
    LET shift == DigitBits - BitLen(b[Len(b)])
        sa    == BigTimesPow2(a, shift)
        sb    == BigTimesPow2(b, shift)
        top   == Max({0, Len(sa) - Len(sb) + 1})
        d     == BigDivFrom(sa, sb, top, BigNorm(SubSeq(sa, top + 1, Len(sa))), <<>>)
    IN  [q |-> BigNorm(d.q), exact |-> d.r = <<>>]

BigOfNat(n) == BigNorm(<<n % Base, n \div Base>>)

FloatZero(sign) == [sign |-> sign, m |-> <<>>, e |-> 0]

\* m * 2^e, with sticky telling that bits below m were already dropped,
\* rounded to MantBits bits: to nearest, ties to even
FloatRound(sign, m, e, sticky) ==
    LET len == BigBitLen(m)
    IN  IF len = 0 THEN FloatZero(sign)
        ELSE IF len <= MantBits
        THEN [sign |-> sign, m |-> BigTimesPow2(m, MantBits - len),
              e |-> e - (MantBits - len)]
        ELSE LET s    == len - MantBits
                 q    == BigDivPow2(m, s)
                 r    == BigSub(m, BigTimesPow2(q, s))
                 half == BigTimesPow2(<<1>>, s - 1)
                 c    == BigCmp(r, half)
                 up   == c > 0 \/ (c = 0 /\ (sticky \/ BigBit(q, 0) = 1))
                 q2   == IF up THEN BigAdd(q, <<1>>) ELSE q
             IN  IF BigBitLen(q2) > MantBits
                 THEN [sign |-> sign, m |-> BigDivPow2(q2, 1), e |-> e + s + 1]
                 ELSE [sign |-> sign, m |-> q2, e |-> e + s]

\* float(n) for a natural number n < 2^28
FloatOfNat(n) == FloatRound(0, BigOfNat(n), 0, FALSE)

FloatNeg(x) == [x EXCEPT !.sign = 1 - x.sign]

FloatMul(x, y) ==
    LET sign == (x.sign + y.sign) % 2
    IN  IF x.m = <<>> \/ y.m = <<>> THEN FloatZero(sign)
        ELSE FloatRound(sign, BigMul(x.m, y.m), x.e + y.e, FALSE)

\* x / y for y # 0
FloatDiv(x, y) ==
    LET sign == (x.sign + y.sign) % 2
        d    == BigDivMod(BigTimesPow2(x.m, MantBits + 3), y.m)
    IN  IF x.m = <<>> THEN FloatZero(sign)
        ELSE FloatRound(sign, d.q, x.e - y.e - (MantBits + 3), ~d.exact)

FloatAdd(x, y) ==
    IF x.m = <<>> /\ y.m = <<>>
    THEN FloatZero(IF x.sign = 1 /\ y.sign = 1 THEN 1 ELSE 0)
    ELSE IF x.m = <<>> THEN y
    ELSE IF y.m = <<>> THEN x
    ELSE LET e  == IF x.e < y.e THEN x.e ELSE y.e
             mx == BigTimesPow2(x.m, x.e - e)
             my == BigTimesPow2(y.m, y.e - e)
             c  == BigCmp(mx, my)
         IN  IF x.sign = y.sign THEN FloatRound(x.sign, BigAdd(mx, my), e, FALSE)
             ELSE IF c = 0 THEN FloatZero(0)
             ELSE IF c > 0 THEN FloatRound(x.sign, BigSub(mx, my), e, FALSE)
             ELSE FloatRound(y.sign, BigSub(my, mx), e, FALSE)

\* x <= y
FloatLe(x, y) ==
    IF x.m = <<>> /\ y.m = <<>> THEN TRUE
    ELSE IF x.m = <<>> THEN y.sign = 0
    ELSE IF y.m = <<>> THEN x.sign = 1
    ELSE IF x.sign # y.sign THEN x.sign = 1
    ELSE LET e  == IF x.e < y.e THEN x.e ELSE y.e
             c  == BigCmp(BigTimesPow2(x.m, x.e - e), BigTimesPow2(y.m, y.e - e))
         IN  IF x.sign = 0 THEN c <= 0 ELSE c >= 0

\* math.log(x, 2) of CPython, for the arguments the bounds reach
MathLog2 == {
    [x |-> [sign |-> 0, m |-> <<5461, 5461, 5461, 1365>>, e |-> -57],
     y |-> [sign |-> 1, m |-> <<12123, 9119, 12294, 1173>>, e |-> -50]],
    [x |-> [sign |-> 0, m |-> <<8548, 9260, 11397, 1424>>, e |-> -57],
     y |-> [sign |-> 1, m |-> <<1877, 107, 522, 1158>>, e |-> -50]],
    [x |-> [sign |-> 0, m |-> <<5958, 4468, 7447, 1489>>, e |-> -57],
     y |-> [sign |-> 1, m |-> <<11937, 14348, 10067, 1141>>, e |-> -50]],
    [x |-> [sign |-> 0, m |-> <<1560, 8582, 6241, 1560>>, e |-> -57],
     y |-> [sign |-> 1, m |-> <<12657, 8775, 7098, 1124>>, e |-> -50]],
    [x |-> [sign |-> 0, m |-> <<6554, 9830, 6553, 1638>>, e |-> -57],
     y |-> [sign |-> 1, m |-> <<4537, 4851, 6776, 1106>>, e |-> -50]],
    [x |-> [sign |-> 0, m |-> <<12072, 12934, 10347, 1724>>, e |-> -57],
     y |-> [sign |-> 1, m |-> <<4929, 5920, 7691, 1087>>, e |-> -50]],
    [x |-> [sign |-> 0, m |-> <<1820, 12743, 7281, 1820>>, e |-> -57],
     y |-> [sign |-> 1, m |-> <<7861, 1855, 8205, 1067>>, e |-> -50]],
    [x |-> [sign |-> 0, m |-> <<7710, 14456, 8673, 1927>>, e |-> -57],
     y |-> [sign |-> 1, m |-> <<9293, 12204, 6397, 1046>>, e |-> -50]],
    [x |-> [sign |-> 0, m |-> <<0, 0, 0, 1024>>, e |-> -56],
     y |-> [sign |-> 1, m |-> <<0, 0, 0, 1024>>, e |-> -50]],
    [x |-> [sign |-> 0, m |-> <<4369, 1092, 4369, 1092>>, e |-> -56],
     y |-> [sign |-> 1, m |-> <<550, 11558, 5373, 2000>>, e |-> -51]],
    [x |-> [sign |-> 0, m |-> <<9362, 2340, 4681, 1170>>, e |-> -56],
     y |-> [sign |-> 1, m |-> <<1070, 15696, 5991, 1949>>, e |-> -51]],
    [x |-> [sign |-> 0, m |-> <<15124, 3780, 5041, 1260>>, e |-> -56],
     y |-> [sign |-> 1, m |-> <<8755, 3655, 10242, 1894>>, e |-> -51]],
    [x |-> [sign |-> 0, m |-> <<5461, 5461, 5461, 1365>>, e |-> -56],
     y |-> [sign |-> 1, m |-> <<7861, 1855, 8205, 1835>>, e |-> -51]],
    [x |-> [sign |-> 0, m |-> <<8548, 9260, 11397, 1424>>, e |-> -56],
     y |-> [sign |-> 1, m |-> <<3754, 214, 1044, 1804>>, e |-> -51]],
    [x |-> [sign |-> 0, m |-> <<5958, 4468, 7447, 1489>>, e |-> -56],
     y |-> [sign |-> 1, m |-> <<7491, 12313, 3751, 1771>>, e |-> -51]],
    [x |-> [sign |-> 0, m |-> <<1560, 8582, 6241, 1560>>, e |-> -56],
     y |-> [sign |-> 1, m |-> <<8929, 1167, 14197, 1736>>, e |-> -51]],
    [x |-> [sign |-> 0, m |-> <<6554, 9830, 6553, 1638>>, e |-> -56],
     y |-> [sign |-> 1, m |-> <<9073, 9702, 13552, 1700>>, e |-> -51]],
    [x |-> [sign |-> 0, m |-> <<12072, 12934, 10347, 1724>>, e |-> -56],
     y |-> [sign |-> 1, m |-> <<9857, 11840, 15382, 1662>>, e |-> -51]],
    [x |-> [sign |-> 0, m |-> <<1820, 12743, 7281, 1820>>, e |-> -56],
     y |-> [sign |-> 1, m |-> <<15721, 3710, 26, 1623>>, e |-> -51]],
    [x |-> [sign |-> 0, m |-> <<7710, 14456, 8673, 1927>>, e |-> -56],
     y |-> [sign |-> 1, m |-> <<2201, 8025, 12795, 1580>>, e |-> -51]],
    [x |-> [sign |-> 0, m |-> <<0, 0, 0, 1024>>, e |-> -55],
     y |-> [sign |-> 1, m |-> <<0, 0, 0, 1536>>, e |-> -51]],
    [x |-> [sign |-> 0, m |-> <<6411, 2849, 8548, 1068>>, e |-> -55],
     y |-> [sign |-> 1, m |-> <<12278, 14742, 9222, 1504>>, e |-> -51]],
    [x |-> [sign |-> 0, m |-> <<4369, 1092, 4369, 1092>>, e |-> -55],
     y |-> [sign |-> 1, m |-> <<550, 11558, 5373, 1488>>, e |-> -51]],
    [x |-> [sign |-> 0, m |-> <<4468, 7447, 1489, 1117>>, e |-> -55],
     y |-> [sign |-> 1, m |-> <<16014, 10457, 11930, 1471>>, e |-> -51]],
    [x |-> [sign |-> 0, m |-> <<9362, 2340, 4681, 1170>>, e |-> -55],
     y |-> [sign |-> 1, m |-> <<1070, 15696, 5991, 1437>>, e |-> -51]],
    [x |-> [sign |-> 0, m |-> <<13107, 3276, 13107, 1228>>, e |-> -55],
     y |-> [sign |-> 1, m |-> <<1213, 7847, 5347, 1401>>, e |-> -51]],
    [x |-> [sign |-> 0, m |-> <<15124, 3780, 5041, 1260>>, e |-> -55],
     y |-> [sign |-> 1, m |-> <<8755, 3655, 10242, 1382>>, e |-> -51]],
    [x |-> [sign |-> 0, m |-> <<862, 13797, 7760, 1293>>, e |-> -55],
     y |-> [sign |-> 1, m |-> <<1997, 9985, 7177, 1363>>, e |-> -51]],
    [x |-> [sign |-> 0, m |-> <<5461, 5461, 5461, 1365>>, e |-> -55],
     y |-> [sign |-> 1, m |-> <<7860, 1855, 8205, 1323>>, e |-> -51]],
    [x |-> [sign |-> 0, m |-> <<5783, 6746, 10601, 1445>>, e |-> -55],
     y |-> [sign |-> 1, m |-> <<10725, 6169, 4590, 1281>>, e |-> -51]],
    [x |-> [sign |-> 0, m |-> <<5958, 4468, 7447, 1489>>, e |-> -55],
     y |-> [sign |-> 1, m |-> <<7490, 12313, 3751, 1259>>, e |-> -51]],
    [x |-> [sign |-> 0, m |-> <<0, 0, 0, 1536>>, e |-> -55],
     y |-> [sign |-> 1, m |-> <<8524, 14528, 8178, 1236>>, e |-> -51]],
    [x |-> [sign |-> 0, m |-> <<6554, 9830, 6553, 1638>>, e |-> -55],
     y |-> [sign |-> 1, m |-> <<9073, 9702, 13552, 1188>>, e |-> -51]],
    [x |-> [sign |-> 0, m |-> <<14043, 11702, 7021, 1755>>, e |-> -55],
     y |-> [sign |-> 1, m |-> <<9593, 13840, 14170, 1137>>, e |-> -51]],
    [x |-> [sign |-> 0, m |-> <<1820, 12743, 7281, 1820>>, e |-> -55],
     y |-> [sign |-> 1, m |-> <<15721, 3710, 26, 1111>>, e |-> -51]],
    [x |-> [sign |-> 0, m |-> <<6302, 13863, 7561, 1890>>, e |-> -55],
     y |-> [sign |-> 1, m |-> <<895, 1800, 2037, 1083>>, e |-> -51]],
    [x |-> [sign |-> 0, m |-> <<0, 0, 0, 1024>>, e |-> -54],
     y |-> [sign |-> 1, m |-> <<0, 0, 0, 1024>>, e |-> -51]],
    [x |-> [sign |-> 0, m |-> <<4468, 7447, 1489, 1117>>, e |-> -54],
     y |-> [sign |-> 1, m |-> <<15644, 4531, 7477, 1919>>, e |-> -52]],
    [x |-> [sign |-> 0, m |-> <<9362, 2340, 4681, 1170>>, e |-> -54],
     y |-> [sign |-> 1, m |-> <<2138, 15008, 11983, 1850>>, e |-> -52]],
    [x |-> [sign |-> 0, m |-> <<13107, 3276, 13107, 1228>>, e |-> -54],
     y |-> [sign |-> 1, m |-> <<2427, 15694, 10694, 1778>>, e |-> -52]],
    [x |-> [sign |-> 0, m |-> <<5461, 5461, 5461, 1365>>, e |-> -54],
     y |-> [sign |-> 1, m |-> <<15721, 3710, 26, 1623>>, e |-> -52]],
    [x |-> [sign |-> 0, m |-> <<0, 0, 0, 1536>>, e |-> -54],
     y |-> [sign |-> 1, m |-> <<663, 12673, 16357, 1448>>, e |-> -52]],
    [x |-> [sign |-> 0, m |-> <<6554, 9830, 6553, 1638>>, e |-> -54],
     y |-> [sign |-> 1, m |-> <<1762, 3021, 10721, 1353>>, e |-> -52]],
    [x |-> [sign |-> 0, m |-> <<14043, 11702, 7021, 1755>>, e |-> -54],
     y |-> [sign |-> 1, m |-> <<2802, 11297, 11957, 1251>>, e |-> -52]],
    [x |-> [sign |-> 0, m |-> <<0, 0, 0, 1024>>, e |-> -53],
     y |-> [sign |-> 1, m |-> <<0, 0, 0, 1024>>, e |-> -52]],
    [x |-> [sign |-> 0, m |-> <<13107, 3276, 13107, 1228>>, e |-> -53],
     y |-> [sign |-> 1, m |-> <<4853, 15004, 5005, 1509>>, e |-> -53]],
    [x |-> [sign |-> 0, m |-> <<5461, 5461, 5461, 1365>>, e |-> -53],
     y |-> [sign |-> 1, m |-> <<15058, 7421, 52, 1198>>, e |-> -53]],
    [x |-> [sign |-> 0, m |-> <<0, 0, 0, 1536>>, e |-> -53],
     y |-> [sign |-> 1, m |-> <<2654, 1540, 16279, 1699>>, e |-> -54]],
    [x |-> [sign |-> 0, m |-> <<6554, 9830, 6553, 1638>>, e |-> -53],
     y |-> [sign |-> 1, m |-> <<7050, 12084, 10116, 1318>>, e |-> -54]],
    [x |-> [sign |-> 0, m |-> <<0, 0, 0, 1024>>, e |-> -52],
     y |-> [sign |-> 0, m |-> <<>>, e |-> 0]],
    [x |-> [sign |-> 0, m |-> <<0, 0, 0, 1024>>, e |-> -51],
     y |-> [sign |-> 0, m |-> <<0, 0, 0, 1024>>, e |-> -52]],
    [x |-> [sign |-> 0, m |-> <<0, 0, 0, 1536>>, e |-> -51],
     y |-> [sign |-> 0, m |-> <<15721, 3710, 26, 1623>>, e |-> -52]],
    [x |-> [sign |-> 0, m |-> <<0, 0, 0, 1024>>, e |-> -50],
     y |-> [sign |-> 0, m |-> <<0, 0, 0, 1024>>, e |-> -51]],
    [x |-> [sign |-> 0, m |-> <<0, 0, 0, 1280>>, e |-> -50],
     y |-> [sign |-> 0, m |-> <<9073, 9702, 13552, 1188>>, e |-> -51]],
    [x |-> [sign |-> 0, m |-> <<0, 0, 0, 1536>>, e |-> -50],
     y |-> [sign |-> 0, m |-> <<7860, 1855, 8205, 1323>>, e |-> -51]],
    [x |-> [sign |-> 0, m |-> <<0, 0, 0, 1792>>, e |-> -50],
     y |-> [sign |-> 0, m |-> <<1069, 15696, 5991, 1437>>, e |-> -51]],
    [x |-> [sign |-> 0, m |-> <<0, 0, 0, 1024>>, e |-> -49],
     y |-> [sign |-> 0, m |-> <<0, 0, 0, 1536>>, e |-> -51]],
    [x |-> [sign |-> 0, m |-> <<0, 0, 0, 1152>>, e |-> -49],
     y |-> [sign |-> 0, m |-> <<15721, 3710, 26, 1623>>, e |-> -51]]
}

math_log2(x) == (CHOOSE row \in MathLog2 : row.x = x).y

(***************************************************************************)
(* metrics/degree_of_anonymity.py                                          *)
(***************************************************************************)
MaxAnonCams == 4
MaxEntries == 7
MaxCount == 2

AnonPseudoIds == {7, 9, 11}
PurgeThresholds == {100}

\* calculate_anonymity_set reads pseudo_id and timestamp of a CAM
AnonCamInputs == [pseudo_id : AnonPseudoIds, timestamp : Timestamps]

\* evaluate calls calculate_anonymity_set without an end timestamp
end_timestamp == 0

Keys(aset) == {aset[i].pseudo_id : i \in 1..Len(aset)}

IndexOf(aset, pseudo_id) == CHOOSE i \in 1..Len(aset) : aset[i].pseudo_id = pseudo_id

\* the time of the last message is refreshed, the count is not incremented
AddCam_NoIncrement(aset, cam) ==
    IF cam.pseudo_id \in Keys(aset)
    THEN [aset EXCEPT ![IndexOf(aset, cam.pseudo_id)] =
             [pseudo_id |-> cam.pseudo_id, n |-> @.n, t |-> cam.timestamp]]
    ELSE Append(aset, [pseudo_id |-> cam.pseudo_id, n |-> 1, t |-> cam.timestamp])

\* the count is incremented, the time of the last message is not refreshed
AddCam_KeepFirstSeen(aset, cam) ==
    IF cam.pseudo_id \in Keys(aset)
    THEN [aset EXCEPT ![IndexOf(aset, cam.pseudo_id)] =
             [pseudo_id |-> cam.pseudo_id, n |-> @.n + 1, t |-> @.t]]
    ELSE Append(aset, [pseudo_id |-> cam.pseudo_id, n |-> 1, t |-> cam.timestamp])

\* if cam.pseudo_id in anonymity_set: count + 1 and the new timestamp;
\* else a new entry (1, cam.timestamp) at the end of the dict
AddCam(aset, cam) ==
    IF cam.pseudo_id \in Keys(aset)
    THEN [aset EXCEPT ![IndexOf(aset, cam.pseudo_id)] =
             [pseudo_id |-> cam.pseudo_id, n |-> @.n + 1, t |-> cam.timestamp]]
    ELSE Append(aset, [pseudo_id |-> cam.pseudo_id, n |-> 1, t |-> cam.timestamp])

ToBePurged_TwiceThreshold(entry, cam, cam_anonymity_set_purge_threshold) ==
    (cam.timestamp - entry.t) > 2 * cam_anonymity_set_purge_threshold

ToBePurged(entry, cam, cam_anonymity_set_purge_threshold) ==
    (cam.timestamp - entry.t) > cam_anonymity_set_purge_threshold

\* pop every key whose last message is older than the threshold
Purge(aset, cam, cam_anonymity_set_purge_threshold) ==
    SelectSeq(aset, LAMBDA entry :
                  ~ToBePurged(entry, cam, cam_anonymity_set_purge_threshold))

RECURSIVE SumCams(_, _)
SumCams(aset, i) == IF i > Len(aset) THEN 0 ELSE aset[i].n + SumCams(aset, i + 1)

\* entropy_tmp += prob * math.log(prob, 2), over the dict in its order
RECURSIVE EntropyFrom(_, _, _)
EntropyFrom(pseudo_prob_dict, i, entropy_tmp) ==
    IF i > Len(pseudo_prob_dict) THEN entropy_tmp
    ELSE EntropyFrom(pseudo_prob_dict, i + 1,
                     FloatAdd(entropy_tmp,
                              FloatMul(pseudo_prob_dict[i],
                                       math_log2(pseudo_prob_dict[i]))))

\* n_total_cams is a float sum of ints, exact below 2^53
calculate_entropy_and_eass(aset) ==
    LET n_total_cams == FloatOfNat(SumCams(aset, 1))
        pseudo_prob_dict ==
            [i \in 1..Len(aset) |-> FloatDiv(FloatOfNat(aset[i].n), n_total_cams)]
    IN  FloatNeg(EntropyFrom(pseudo_prob_dict, 1, FloatZero(0)))

Sentinel == FloatNeg(FloatOfNat(1))

calculate_degree_of_anonymity(aset, eass_value) ==
    IF Len(aset) <= 1 THEN Sentinel
    ELSE FloatDiv(eass_value, math_log2(FloatOfNat(Len(aset))))

OtherThanAnon == <<trace_vars, probe_vars, main_vars, parse_vars, dedup_vars,
                   cons_vars, duration_vars, eval_vars>>

AnonIdle ==
    /\ anon_cams = <<>>
    /\ threshold = 0
    /\ anonymity_set = <<>>
    /\ last_purge_timestamp = 0
    /\ purge_log = <<>>
    /\ anon_pc = "idle"
    /\ eass = <<>>
    /\ degree_of_anon = <<>>

\* evaluate: calculate_anonymity_set(cams, args.anonymity_cam_purge_threshold)
AnonInit ==
    /\ anon_cams = <<>>
    /\ threshold \in PurgeThresholds
    /\ anonymity_set = <<>>
    /\ last_purge_timestamp = 0
    /\ purge_log = <<>>
    /\ anon_pc = "scan"
    /\ eass = <<>>
    /\ degree_of_anon = <<>>

\* the CAMs a stream with non-decreasing timestamps can continue with
AnonOrdered ==
    {cam \in AnonCamInputs :
        anon_cams = <<>> \/ cam.timestamp >= Last(anon_cams).timestamp}

\* the purge pass is made at every CAM
SkipPurge_Never(last_purge, cam) == FALSE

\* if last purge already happened at timestamp, skip purge
SkipPurge(last_purge, cam) == last_purge = cam.timestamp

\* for cam in cams: one iteration of the loop of calculate_anonymity_set
CalculateAnonymitySetStep(cam) ==
    /\ anon_pc = "scan"
    /\ Len(anon_cams) < MaxAnonCams
    /\ ~(end_timestamp # 0 /\ cam.timestamp >= end_timestamp)
    /\ anon_cams' = Append(anon_cams, cam)
    /\ anonymity_set' =
           IF SkipPurge(last_purge_timestamp, cam)
           THEN AddCam(anonymity_set, cam)
           ELSE Purge(AddCam(anonymity_set, cam), cam, threshold)
    /\ purge_log' =
           IF SkipPurge(last_purge_timestamp, cam)
           THEN purge_log
           ELSE Append(purge_log, Len(anon_cams) + 1)
    /\ last_purge_timestamp' =
           IF SkipPurge(last_purge_timestamp, cam)
           THEN last_purge_timestamp
           ELSE cam.timestamp
    /\ UNCHANGED <<threshold, anon_pc, eass, degree_of_anon,
                   OtherThanAnon>>

\* the CAM list is exhausted: return anonymity_set
CalculateAnonymitySetReturn ==
    /\ anon_pc = "scan"
    /\ anon_pc' = "entropy"
    /\ UNCHANGED <<anon_cams, threshold, anonymity_set, last_purge_timestamp, purge_log,
                   eass, degree_of_anon,
                   OtherThanAnon>>

\* eass = calculate_entropy_and_eass(anonymity_set)
CalculateEntropyAndEass ==
    /\ anon_pc = "entropy"
    /\ eass' = <<calculate_entropy_and_eass(anonymity_set)>>
    /\ anon_pc' = "degree"
    /\ UNCHANGED <<anon_cams, threshold, anonymity_set, last_purge_timestamp, purge_log,
                   degree_of_anon,
                   OtherThanAnon>>

\* degree_of_anon = calculate_degree_of_anonymity(anonymity_set, eass)
CalculateDegreeOfAnonymity ==
    /\ anon_pc = "degree"
    /\ degree_of_anon' = <<calculate_degree_of_anonymity(anonymity_set, eass[1])>>
    /\ anon_pc' = "done"
    /\ UNCHANGED <<anon_cams, threshold, anonymity_set, last_purge_timestamp, purge_log, eass,
                   OtherThanAnon>>

(***************************************************************************)
(* metrics/pseudonym_consumption.py                                        *)
(* A rate (int / float) is a ratio [num, den]; the standard deviation is   *)
(* kept as its square, the sample variance, which statistics.stdev         *)
(* computes exactly before taking the root.                                *)
(***************************************************************************)
MaxConsCams == 4

ConsStaticIds == {1, 2, 3}
SimTimes == {10}

\* calculate_pseudonym_consumption reads static_id and pseudo_id of a CAM
ConsCamInputs == [static_id : ConsStaticIds, pseudo_id : PseudoIds]

\* the keys of pseudonyms_per_id in insertion order: setdefault inserts a
\* static id at its first CAM
RECURSIVE StaticIdsInOrder(_, _)
StaticIdsInOrder(cam_list, i) ==
    IF i = 0 THEN <<>>
    ELSE LET before == StaticIdsInOrder(cam_list, i - 1)
         IN  IF cam_list[i].static_id \in Range(before) THEN before
             ELSE Append(before, cam_list[i].static_id)

\* a list instead of a set: one element per CAM of the vehicle
PseudonymsOf_EveryCam(cam_list, static_id) ==
    {j \in 1..Len(cam_list) : cam_list[j].static_id = static_id}

\* pseudonyms_per_id[static_id]: the set of pseudonym ids added for it
PseudonymsOf(cam_list, static_id) ==
    {cam_list[i].pseudo_id : i \in {j \in 1..Len(cam_list) :
                                        cam_list[j].static_id = static_id}}

calculate_pseudonym_consumption(cam_list, sim_time_value) ==
    LET ids == StaticIdsInOrder(cam_list, Len(cam_list))
    IN  [i \in 1..Len(ids) |->
            [static_id |-> ids[i],
             num |-> Cardinality(PseudonymsOf(cam_list, ids[i])),
             den |-> sim_time_value]]

\* the values of the dict in non-decreasing order; all have the same den
SortedNums(consumption) ==
    CHOOSE s \in [1..Len(consumption) -> {consumption[i].num : i \in 1..Len(consumption)}] :
        /\ \A i \in 1..(Len(consumption) - 1) : s[i] <= s[i + 1]
        /\ \A v \in Range(s) :
               Cardinality({i \in 1..Len(consumption) : s[i] = v})
                   = Cardinality({i \in 1..Len(consumption) : consumption[i].num = v})

RECURSIVE SumNums(_, _)
SumNums(s, i) == IF i > Len(s) THEN 0 ELSE s[i] + SumNums(s, i + 1)

\* statistics.median: the middle value, or the mean of the two middle values
Median(s, den) ==
    LET n == Len(s)
    IN  IF n % 2 = 1 THEN [num |-> s[(n + 1) \div 2], den |-> den]
        ELSE [num |-> s[n \div 2] + s[n \div 2 + 1], den |-> 2 * den]

\* statistics.stdev squared: sum((x - mean)^2) / (n - 1)
Variance(s, den) ==
    LET n == Len(s)
    IN  [num |-> n * SumNums([i \in 1..n |-> s[i] * s[i]], 1) - SumNums(s, 1) * SumNums(s, 1),
         den |-> n * (n - 1) * den * den]

\* min() of an empty dict raises ValueError, stdev of one value raises
\* StatisticsError, 1 / std_pseudo_cons raises ZeroDivisionError for 0.0;
\* the file is written after the five lines are printed
write_stats(consumption) ==
    LET n   == Len(consumption)
        s   == SortedNums(consumption)
        den == consumption[1].den
    IN  IF n = 0 THEN [raised |-> "ValueError", file |-> <<>>]
        ELSE IF n = 1 THEN [raised |-> "StatisticsError", file |-> <<>>]
        ELSE IF Variance(s, den).num = 0
        THEN [raised |-> "ZeroDivisionError", file |-> <<>>]
        ELSE [raised |-> "",
              file |-> <<[Min    |-> [num |-> s[1], den |-> den],
                          Max    |-> [num |-> s[n], den |-> den],
                          Median |-> Median(s, den),
                          Mean   |-> [num |-> SumNums(s, 1), den |-> n * den],
                          Stdev2 |-> Variance(s, den)]>>]

OtherThanCons == <<trace_vars, probe_vars, main_vars, parse_vars, dedup_vars,
                   anon_vars, duration_vars, eval_vars>>

ConsIdle ==
    /\ cons_cams = <<>>
    /\ sim_time = 0
    /\ cons_pc = "idle"
    /\ pseudonym_consumption = <<>>
    /\ stats_file = <<>>

\* evaluate(args, cams, config): sim_time = config['sim_time']
ConsInit ==
    /\ cons_cams \in UNION {[1..n -> ConsCamInputs] : n \in 0..MaxConsCams}
    /\ sim_time \in SimTimes
    /\ cons_pc = "calculate"
    /\ pseudonym_consumption = <<>>
    /\ stats_file = <<>>

\* pseudonym_consumption = calculate_pseudonym_consumption(cams, sim_time)
CalculatePseudonymConsumption ==
    /\ cons_pc = "calculate"
    /\ pseudonym_consumption' = calculate_pseudonym_consumption(cons_cams, sim_time)
    /\ cons_pc' = "write"
    /\ UNCHANGED <<cons_cams, sim_time, stats_file,
                   OtherThanCons>>

\* write_stats(out_dir, pseudonym_consumption)
WriteStats ==
    /\ cons_pc = "write"
    /\ stats_file' = write_stats(pseudonym_consumption).file
    /\ cons_pc' = IF write_stats(pseudonym_consumption).raised = ""
                  THEN "written"
                  ELSE write_stats(pseudonym_consumption).raised
    /\ UNCHANGED <<cons_cams, sim_time, pseudonym_consumption,
                   OtherThanCons>>

(***************************************************************************)
(* One call of VehicleDynamicId.get_trace_duration                         *)
(***************************************************************************)
MaxPositions == 3

OriginalPositionInputs ==
    {Position(lon, 0, ts) : lon \in Longitudes, ts \in Timestamps}

TracedPositionInputs ==
    {Position(lon, 0, ts) : lon \in Longitudes, ts \in {0, 100}}

OtherThanDuration == <<trace_vars, probe_vars, main_vars, parse_vars, dedup_vars,
                       anon_vars, cons_vars, eval_vars>>

DurationIdle == duration_probe = <<>> /\ duration_result = <<>>

DurationInit ==
    /\ duration_probe \in
           {<<[original_positions |-> o, traced_positions |-> t]>> :
               o \in UNION {[1..n -> OriginalPositionInputs] : n \in 0..MaxPositions},
               t \in UNION {[1..n -> TracedPositionInputs] : n \in 0..MaxPositions}}
    /\ duration_result = <<>>

GetTraceDuration ==
    /\ duration_probe # <<>>
    /\ duration_result = <<>>
    /\ duration_result' = <<get_trace_duration(duration_probe[1].original_positions,
                                               duration_probe[1].traced_positions)>>
    /\ UNCHANGED <<duration_probe, OtherThanDuration>>

(***************************************************************************)
(* metrics/static_attacker.py: evaluate and its parallel evaluate_trace     *)
(* tasks. A trace is given by its static id, the duration of its first     *)
(* reconstructed trace and the duration of its original trace; the static  *)
(* ids of the list get_vehicle_traces returns are pairwise distinct.        *)
(***************************************************************************)
MaxTraces == 3

DurationPairs ==
    {[max_tracking_duration |-> 0,   duration |-> 0],
     [max_tracking_duration |-> 100, duration |-> 300],
     [max_tracking_duration |-> 200, duration |-> 300],
     [max_tracking_duration |-> 300, duration |-> 300]}

EvalTraceInputs ==
    UNION {{[i \in 1..n |-> [static_id |-> i,
                             max_tracking_duration |-> d[i].max_tracking_duration,
                             duration |-> d[i].duration]] :
               d \in [1..n -> DurationPairs]} : n \in 0..MaxTraces}

\* os.path.join(static_attacker_dir, str(vehicle_trace.static_id))
result_dir(vehicle_trace) == vehicle_trace.static_id

\* max_tracking_duration / vehicle_trace.original_trace.duration as a float
TrackingSuccess(vehicle_trace) ==
    FloatDiv(FloatOfNat(vehicle_trace.max_tracking_duration),
             FloatOfNat(vehicle_trace.duration))

\* the list is filled in the order in which the tasks returned
TrackingSuccesses_AsCompleted(results, order) ==
    [k \in 1..Len(results) |-> results[order[k]][1]]

\* parallel(delayed_fncs): the results in the order of the submitted tasks
TrackingSuccesses(results, order) ==
    [i \in 1..Len(results) |-> results[i][1]]

\* sum(tracking_successes): 0 + x1 + x2 + ... from left to right
RECURSIVE FloatSum(_, _)
FloatSum(xs, i) ==
    IF i = 0 THEN FloatZero(0) ELSE FloatAdd(FloatSum(xs, i - 1), xs[i])

\* (sum(tracking_successes) / len(traces)) * 100
OverallTrackingSuccess(tracking_succs, n) ==
    FloatMul(FloatDiv(FloatSum(tracking_succs, Len(tracking_succs)), FloatOfNat(n)),
             FloatOfNat(100))

OtherThanEval == <<trace_vars, probe_vars, main_vars, parse_vars, dedup_vars,
                   anon_vars, cons_vars, duration_vars>>

EvalIdle ==
    /\ eval_traces = <<>>
    /\ task_pc = <<>>
    /\ task_results = <<>>
    /\ written_files = {}
    /\ completion_order = <<>>
    /\ eval_pc = "idle"
    /\ collected = <<>>
    /\ overall = <<>>

\* evaluate(args, traces): the tasks are handed to the workers
EvalInit ==
    /\ eval_traces \in EvalTraceInputs
    /\ task_pc = [i \in 1..Len(eval_traces) |-> "start"]
    /\ task_results = [i \in 1..Len(eval_traces) |-> <<>>]
    /\ written_files = {}
    /\ completion_order = <<>>
    /\ eval_pc = "parallel"
    /\ collected = <<>>
    /\ overall = <<>>

\* evaluate_trace up to draw_map: the plot and the map are saved in result_dir
PlotAndDrawMap(i) ==
    /\ eval_pc = "parallel"
    /\ task_pc[i] = "start"
    /\ task_pc' = [task_pc EXCEPT ![i] = "plotted"]
    /\ written_files' = written_files \cup
           {[dir |-> result_dir(eval_traces[i]), name |-> "plot", by |-> i],
            [dir |-> result_dir(eval_traces[i]), name |-> "map", by |-> i]}
    /\ UNCHANGED <<eval_traces, task_results, completion_order, eval_pc, collected,
                   overall, OtherThanEval>>

\* write_success_rate and the return of evaluate_trace; the division raises
\* ZeroDivisionError before the result file is opened
WriteSuccessRate(i) ==
    /\ eval_pc = "parallel"
    /\ task_pc[i] = "plotted"
    /\ IF eval_traces[i].duration = 0
       THEN /\ task_pc' = [task_pc EXCEPT ![i] = "raised"]
            /\ UNCHANGED <<task_results, written_files, completion_order>>
       ELSE /\ task_pc' = [task_pc EXCEPT ![i] = "done"]
            /\ task_results' =
                   [task_results EXCEPT ![i] = <<TrackingSuccess(eval_traces[i])>>]
            /\ written_files' = written_files \cup
                   {[dir |-> result_dir(eval_traces[i]), name |-> "result", by |-> i]}
            /\ completion_order' = Append(completion_order, i)
    /\ UNCHANGED <<eval_traces, eval_pc, collected, overall, OtherThanEval>>

\* a task raised: parallel() raises its exception in evaluate
ParallelRaises ==
    /\ eval_pc = "parallel"
    /\ \E i \in 1..Len(eval_traces) : task_pc[i] = "raised"
    /\ eval_pc' = "ZeroDivisionError"
    /\ UNCHANGED <<eval_traces, task_pc, task_results, written_files,
                   completion_order, collected, overall, OtherThanEval>>

\* every task returned: the overall tracking success is computed and written;
\* with no trace the division by len(traces) raises
WriteTrackingSuccess ==
    /\ eval_pc = "parallel"
    /\ \A i \in 1..Len(eval_traces) : task_pc[i] = "done"
    /\ collected' = TrackingSuccesses(task_results, completion_order)
    /\ IF Len(eval_traces) = 0
       THEN /\ eval_pc' = "ZeroDivisionError"
            /\ overall' = overall
       ELSE /\ eval_pc' = "written"
            /\ overall' = <<OverallTrackingSuccess(collected', Len(eval_traces))>>
    /\ UNCHANGED <<eval_traces, task_pc, task_results, written_files,
                   completion_order, OtherThanEval>>

MetricIdle == AnonIdle /\ ConsIdle /\ DurationIdle /\ EvalIdle

(***************************************************************************)
(* Spec: two standing vehicles, timestamps non-decreasing along the stream *)
(***************************************************************************)
Init == TraceInit({<<>>}) /\ ProbeIdle /\ MainIdle /\ ParseIdle /\ DedupIdle /\ MetricIdle

Next ==
    \/ \E cam \in Ordered(CamInputs) : BuildRoutesStep(cam)
    \/ GetVehicleTraces(<<>>)
    \/ EvaluateTraces

Spec == Init /\ [][Next]_vars

(***************************************************************************)
(* SpecAllow: build_routes on streams of two standing vehicles, with and    *)
(* without an allow-list                                                   *)
(***************************************************************************)
InitAllow == TraceInit(AllowLists) /\ ProbeIdle /\ MainIdle /\ ParseIdle /\ DedupIdle /\ MetricIdle

NextAllow ==
    \/ \E cam \in Ordered(CorrelateCamInputs) : BuildRoutesSkip(cam)
    \/ \E cam \in Ordered(CorrelateCamInputs) : BuildRoutesStep(cam)

SpecAllow == InitAllow /\ [][NextAllow]_vars

(***************************************************************************)
(* SpecMotion: one vehicle, standing or driving, timestamps non-decreasing *)
(***************************************************************************)
InitMotion == TraceInit({<<>>}) /\ ProbeIdle /\ MainIdle /\ ParseIdle /\ DedupIdle /\ MetricIdle

NextMotion ==
    \/ \E cam \in Ordered(MotionCamInputs) : BuildRoutesStep(cam)
    \/ GetVehicleTraces(<<>>)
    \/ EvaluateTraces

SpecMotion == InitMotion /\ [][NextMotion]_vars

(***************************************************************************)
(* SpecShape: one standing vehicle, CAMs of two widths, timestamps         *)
(* non-decreasing                                                          *)
(***************************************************************************)
InitShape == TraceInit({<<>>}) /\ ProbeIdle /\ MainIdle /\ ParseIdle /\ DedupIdle /\ MetricIdle

NextShape ==
    \/ \E cam \in Ordered(ShapeCamInputs) : BuildRoutesStep(cam)
    \/ GetVehicleTraces(<<>>)
    \/ EvaluateTraces

SpecShape == InitShape /\ [][NextShape]_vars

(***************************************************************************)
(* SpecCorrelate: two standing vehicles, get_vehicle_traces with and       *)
(* without --max-vehicles                                                  *)
(***************************************************************************)
InitCorrelate == TraceInit({<<>>}) /\ ProbeIdle /\ MainIdle /\ ParseIdle /\ DedupIdle /\ MetricIdle

NextCorrelate ==
    \/ \E cam \in Ordered(CorrelateCamInputs) : BuildRoutesStep(cam)
    \/ \E max \in MaxVehicleInputs : GetVehicleTraces(max)
    \/ EvaluateTraces

SpecCorrelate == InitCorrelate /\ [][NextCorrelate]_vars

(***************************************************************************)
(* SpecAnyOrder: build_routes on streams of two standing vehicles whose     *)
(* timestamps come in any order                                            *)
(***************************************************************************)
InitAnyOrder == TraceInit({<<>>}) /\ ProbeIdle /\ MainIdle /\ ParseIdle /\ DedupIdle /\ MetricIdle

NextAnyOrder == \E cam \in AnyOrderCamInputs : BuildRoutesStep(cam)

SpecAnyOrder == InitAnyOrder /\ [][NextAnyOrder]_vars

(***************************************************************************)
(* SpecParallel: static_attacker.evaluate, its tasks in every interleaving *)
(***************************************************************************)
InitParallel ==
    /\ EvalInit /\ AnonIdle /\ ConsIdle /\ DurationIdle
    /\ TraceIdle /\ ProbeIdle /\ MainIdle /\ ParseIdle /\ DedupIdle

NextParallel ==
    \/ \E i \in 1..Len(eval_traces) : PlotAndDrawMap(i)
    \/ \E i \in 1..Len(eval_traces) : WriteSuccessRate(i)
    \/ ParallelRaises
    \/ WriteTrackingSuccess

SpecParallel == InitParallel /\ [][NextParallel]_vars

(***************************************************************************)
(* SpecPosition: compare_position on one estimated route and one CAM       *)
(***************************************************************************)
InitPosition ==
    /\ TraceIdle /\ MainIdle /\ ParseIdle /\ DedupIdle /\ MetricIdle
    /\ probe \in {<<p>> : p \in [self : {VehicleDynamicId(c) : c \in ProbeCamInputs},
                                  cam : ProbeCamInputs]}
    /\ probe_result = <<>>

NextPosition == ComparePosition

SpecPosition == InitPosition /\ [][NextPosition]_vars

(***************************************************************************)
(* SpecMain: evaluate.main for every combination of present files, set     *)
(* arguments and failing addons.  main is one sequential process: it takes *)
(* its next step whenever it has one.                                      *)
(***************************************************************************)
InitMain == MainInit /\ TraceIdle /\ ProbeIdle /\ ParseIdle /\ DedupIdle /\ MetricIdle

NextMain ==
    \/ CheckCamCsv
    \/ LoadCams
    \/ GetConfig
    \/ SkipAddon
    \/ EvaluateAddon
    \/ EvaluationDone

SpecMain == InitMain /\ [][NextMain]_vars /\ WF_vars(NextMain)

(***************************************************************************)
(* SpecParse: parse_cam_csv on files of well-formed and malformed rows     *)
(***************************************************************************)
InitParse == ParseInit /\ TraceIdle /\ ProbeIdle /\ MainIdle /\ DedupIdle /\ MetricIdle

NextParse == ParseRow \/ ParseReturn

SpecParse == InitParse /\ [][NextParse]_vars

(***************************************************************************)
(* SpecDedup: remove_duplicate_cam run once and again on every small file  *)
(***************************************************************************)
InitDedup == DedupInit /\ TraceIdle /\ ProbeIdle /\ MainIdle /\ ParseIdle /\ MetricIdle

NextDedup == RemoveDuplicateCam

SpecDedup == InitDedup /\ [][NextDedup]_vars

(***************************************************************************)
(* SpecAnon: the degree-of-anonymity addon on a stream with non-decreasing *)
(* timestamps                                                              *)
(***************************************************************************)
InitAnon ==
    /\ AnonInit /\ ConsIdle /\ DurationIdle /\ EvalIdle
    /\ TraceIdle /\ ProbeIdle /\ MainIdle /\ ParseIdle /\ DedupIdle

NextAnon ==
    \/ \E cam \in AnonOrdered : CalculateAnonymitySetStep(cam)
    \/ CalculateAnonymitySetReturn
    \/ CalculateEntropyAndEass
    \/ CalculateDegreeOfAnonymity

SpecAnon == InitAnon /\ [][NextAnon]_vars

(***************************************************************************)
(* SpecEntropy: calculate_entropy_and_eass and                             *)
(* calculate_degree_of_anonymity on the anonymity sets of up to MaxEntries *)
(* pseudonyms with up to MaxCount CAMs each, all seen at timestamp 0       *)
(***************************************************************************)
InitEntropy ==
    /\ anon_cams = <<>>
    /\ threshold \in PurgeThresholds
    /\ anonymity_set \in
           {[i \in 1..Len(counts) |-> [pseudo_id |-> i, n |-> counts[i], t |-> 0]] :
               counts \in UNION {[1..k -> 1..MaxCount] : k \in 1..MaxEntries}}
    /\ last_purge_timestamp = 0
    /\ purge_log = <<>>
    /\ anon_pc = "entropy"
    /\ eass = <<>>
    /\ degree_of_anon = <<>>
    /\ ConsIdle /\ DurationIdle /\ EvalIdle
    /\ TraceIdle /\ ProbeIdle /\ MainIdle /\ ParseIdle /\ DedupIdle

NextEntropy ==
    \/ CalculateEntropyAndEass
    \/ CalculateDegreeOfAnonymity

SpecEntropy == InitEntropy /\ [][NextEntropy]_vars

(***************************************************************************)
(* SpecConsumption: the pseudonym-consumption addon on every CAM list      *)
(***************************************************************************)
InitConsumption ==
    /\ ConsInit /\ AnonIdle /\ DurationIdle /\ EvalIdle
    /\ TraceIdle /\ ProbeIdle /\ MainIdle /\ ParseIdle /\ DedupIdle

NextConsumption ==
    \/ CalculatePseudonymConsumption
    \/ WriteStats

SpecConsumption == InitConsumption /\ [][NextConsumption]_vars

(***************************************************************************)
(* SpecDuration: get_trace_duration on every pair of position sequences    *)
(***************************************************************************)
InitDuration ==
    /\ DurationInit /\ AnonIdle /\ ConsIdle /\ EvalIdle
    /\ TraceIdle /\ ProbeIdle /\ MainIdle /\ ParseIdle /\ DedupIdle

NextDuration == GetTraceDuration

SpecDuration == InitDuration /\ [][NextDuration]_vars

(***************************************************************************)
(* Properties of the route matching                                        *)
(***************************************************************************)
NonDecreasing(cs) ==
    \A i \in 1..(Len(cs) - 1) : cs[i].timestamp <= cs[i + 1].timestamp

DistinctCamTimestamps(cs) == Cardinality({cs[i].timestamp : i \in 1..Len(cs)})

\* the step just taken handed a CAM to match_dynamic_vehicle
MatchedCam ==
    /\ phase = "build" /\ phase' = "build"
    /\ Len(cams') = Len(cams) + 1
    /\ ~Skipped(Last(cams'), vehicles)

\* estimated routes whose last pseudonym is the CAM's pseudonym
IdMatches(cam, dynamic_vehs) ==
    {i \in 1..Len(dynamic_vehs) : compare_id(dynamic_vehs[i], cam.pseudo_id)}

\* C1: whenever some estimated route's last pseudonym equals the CAM's
\* pseudo_id, match_dynamic_vehicle appends the CAM to a route whose last
\* pseudonym is that pseudo_id; no other route captures it by shape and
\* continuity.
C1_IdentityDominates ==
    [][(MatchedCam /\ IdMatches(Last(cams'), dynamic_vehicles) # {})
        => \E i \in IdMatches(Last(cams'), dynamic_vehicles) :
              /\ Len(dynamic_vehicles') = Len(dynamic_vehicles)
              /\ dynamic_vehicles'[i] =
                     update_parameters(dynamic_vehicles[i], Last(cams'))
              /\ \A j \in 1..Len(dynamic_vehicles) :
                     j # i => dynamic_vehicles'[j] = dynamic_vehicles[j]]_vars

RECURSIVE MaxDuration(_, _)
MaxDuration(parts, i) ==
    IF i = Len(parts) THEN parts[i].duration
    ELSE LET rest == MaxDuration(parts, i + 1)
         IN  IF parts[i].duration > rest THEN parts[i].duration ELSE rest

\* C2: the tracking success of every vehicle trace is the maximum duration
\* over all its reconstructed fragments divided by the original duration.
C2_SuccessIsMaxFragment ==
    phase = "evaluated" =>
        \A i \in 1..Len(traces) :
            tracking_successes[i].raised = "" =>
                /\ tracking_successes[i].num =
                       MaxDuration(traces[i].reconstructed_traces, 1)
                /\ tracking_successes[i].den = traces[i].original_trace.duration

\* C3: for a stream with non-decreasing timestamps every returned trace has a
\* non-zero original duration and 0 <= tracking success <= 1.
C3_SuccessBound ==
    (phase = "evaluated" /\ NonDecreasing(cams)) =>
        \A i \in 1..Len(traces) :
            /\ traces[i].original_trace.duration # 0
            /\ tracking_successes[i].raised = ""
            /\ tracking_successes[i].den > 0
            /\ 0 <= tracking_successes[i].num
            /\ tracking_successes[i].num <= tracking_successes[i].den

C3_Witness ==
    /\ phase = "evaluated" /\ NonDecreasing(cams)
    /\ \E i \in 1..Len(traces) :
          /\ 0 < tracking_successes[i].num
          /\ tracking_successes[i].num < tracking_successes[i].den

\* one vehicle standing at one place with one shape
StandingVehicle(cs) ==
    /\ cs # <<>>
    /\ \A i \in 1..Len(cs) :
          /\ cs[i].static_id = cs[1].static_id
          /\ cs[i].width = cs[1].width /\ cs[i].length = cs[1].length
          /\ cs[i].longitude = cs[1].longitude
          /\ cs[i].latitude = cs[1].latitude
          /\ cs[i].speed = 0

\* C4: a single standing vehicle of constant shape, whatever its pseudonyms,
\* yields exactly one estimated route holding all CAMs; with at least two
\* distinct non-decreasing timestamps its tracking success is exactly 1.
C4_StandingVehicleOneTrack ==
    StandingVehicle(cams) =>
        /\ Len(dynamic_vehicles) = 1
        /\ dynamic_vehicles[1].pseudo_id = [i \in 1..Len(cams) |-> cams[i].pseudo_id]
        /\ dynamic_vehicles[1].timestamps = [i \in 1..Len(cams) |-> cams[i].timestamp]
        /\ (phase = "evaluated" /\ NonDecreasing(cams)
              /\ DistinctCamTimestamps(cams) >= 2) =>
               /\ Len(tracking_successes) = 1
               /\ tracking_successes[1].raised = ""
               /\ tracking_successes[1].num = tracking_successes[1].den

C4_Witness ==
    /\ StandingVehicle(cams) /\ phase = "evaluated" /\ NonDecreasing(cams)
    /\ Len(cams) = 4
    /\ cams[1].pseudo_id # cams[3].pseudo_id
    /\ cams[3].timestamp > cams[2].timestamp
    /\ Len(tracking_successes) = 1
    /\ tracking_successes[1].num = tracking_successes[1].den

\* index of the first CAM under another pseudonym than the first CAM's, 0 if none
ChangeIndex(cs) ==
    LET changed == {k \in 1..Len(cs) : cs[k].pseudo_id # cs[1].pseudo_id}
    IN  IF changed = {} THEN 0 ELSE CHOOSE k \in changed : \A j \in changed : k <= j

\* one vehicle whose first CAM under a new pseudonym lies farther than the
\* tolerance from the position predicted from the CAM before it, the CAMs
\* before the change spanning two distinct timestamps
LostAtChange(cs) ==
    LET k == ChangeIndex(cs)
    IN  /\ k > 2
        /\ \A i \in 1..Len(cs) : cs[i].static_id = cs[1].static_id
        /\ DistinctCamTimestamps(SubSeq(cs, 1, k - 1)) >= 2
        /\ PositionDeviation(VehicleDynamicId(cs[k - 1]), cs[k]) >= POS_ERR_TOLERANCE

SecondTrackAtChange(cs) ==
    LET k == ChangeIndex(cs)
    IN  /\ Len(dynamic_vehicles) >= 2
        /\ dynamic_vehicles[2].pseudo_id[1] = cs[k].pseudo_id
        /\ dynamic_vehicles[2].timestamps[1] = cs[k].timestamp
        /\ dynamic_vehicles[2].longitude[1] = cs[k].longitude

FirstFragmentSuccess(cs) ==
    LET k == ChangeIndex(cs)
    IN  /\ Len(tracking_successes) = 1
        /\ tracking_successes[1].num = cs[k - 1].timestamp - cs[1].timestamp
        /\ tracking_successes[1].den = static_vehicles[1].duration

\* C5 as stated, on streams with non-decreasing timestamps: the change creates
\* a second estimated route and the tracking success is (timestamp of the last
\* CAM before the change - first timestamp) over the original duration.
C5_OnlyFirstFragmentCounts ==
    (LostAtChange(cams) /\ NonDecreasing(cams)) =>
        /\ SecondTrackAtChange(cams)
        /\ (phase = "evaluated" /\ tracking_successes[1].raised = "")
               => FirstFragmentSuccess(cams)

\* C5 as amended, on streams with non-decreasing timestamps: the change
\* creates a second estimated route, and the tracking success is that ratio
\* whenever no later CAM is appended to the first route.
C5_OnlyFirstFragmentCountsIfNotResumed ==
    (LostAtChange(cams) /\ NonDecreasing(cams)) =>
        /\ SecondTrackAtChange(cams)
        /\ (/\ phase = "evaluated"
            /\ Len(dynamic_vehicles[1].timestamps) = ChangeIndex(cams) - 1)
               => (tracking_successes[1].raised = "" /\ FirstFragmentSuccess(cams))

C5_Witness ==
    /\ LostAtChange(cams) /\ NonDecreasing(cams) /\ phase = "evaluated"
    /\ Len(cams) = 4 /\ ChangeIndex(cams) = 3
    /\ Len(dynamic_vehicles[1].timestamps) = 2
    /\ FirstFragmentSuccess(cams)
    /\ 0 < tracking_successes[1].num
    /\ tracking_successes[1].num < tracking_successes[1].den

\* C6: an estimated route whose last state has speed 0 and a CAM with speed 0
\* at the same longitude and latitude are accepted by compare_position for
\* every time gap and every pair of headings.
C6_StandingAlwaysContinuous ==
    (/\ probe_result # <<>>
     /\ Last(probe[1].self.speed) = 0 /\ probe[1].cam.speed = 0
     /\ Last(probe[1].self.longitude) = probe[1].cam.longitude
     /\ Last(probe[1].self.latitude) = probe[1].cam.latitude)
        => probe_result[1] = TRUE

C6_Witness ==
    /\ probe_result = <<TRUE>>
    /\ Last(probe[1].self.speed) = 0 /\ probe[1].cam.speed = 0
    /\ Last(probe[1].self.longitude) = probe[1].cam.longitude
    /\ Last(probe[1].self.latitude) = probe[1].cam.latitude
    /\ probe[1].cam.timestamp - Last(probe[1].self.timestamps) = 200
    /\ Last(probe[1].self.heading) = 0 /\ probe[1].cam.heading = 1800

(***************************************************************************)
(* Properties of evaluate.main                                             *)
(***************************************************************************)
\* the addons whose argument is set, in the order of `addons`
EnabledInOrder == SelectSeq(addons, LAMBDA a : a \in args)

IsPrefix(s, t) == Len(s) <= Len(t) /\ s = SubSeq(t, 1, Len(s))

\* C7: once the CAM file and the config are loaded, every enabled addon's
\* evaluate function is invoked exactly once, in the order Static Attacker,
\* Dynamic Attacker, Degree of Anonymity, Pseudonym Consumption, whichever of
\* them raise, and the run ends by printing that the evaluation is done.
C7_AddonIsolation ==
    /\ [](IsPrefix(invoked, EnabledInOrder))
    /\ (pc = "addons") ~> (/\ pc = "done"
                           /\ invoked = EnabledInOrder
                           /\ Last(stdout)[1] = "Evaluation done.")

C7_Witness ==
    /\ pc = "done"
    /\ Len(invoked) >= 2
    /\ invoked[1] \in raising
    /\ stdout[1][1] = "Failed to evaluate"
    /\ Last(stdout)[1] = "Evaluation done."

\* C8: when the CAM file or the config file is missing, main aborts and no
\* addon's evaluate function is ever invoked.
C8_MissingInputFatal ==
    (~cam_csv_exists \/ ~cfg_exists) =>
        /\ invoked = <<>>
        /\ stdout = <<>>
        /\ pc \notin {"addons", "done"}

C8_Witness ==
    /\ cam_csv_exists /\ input_ok /\ ~cfg_exists
    /\ args # {}
    /\ pc = "raised"

(***************************************************************************)
(* Properties of parse_cam_csv                                             *)
(***************************************************************************)
WellFormed(csv_row) ==
    Len(csv_row) = 9 /\ \A j \in 1..Len(csv_row) : IsIntLiteral(csv_row[j])

\* C9: parse_cam_csv raises and returns no list whenever some row has fewer
\* or more than 9 columns or holds a field that is not an integer.
C9_MalformedRowsRaise ==
    parse_state = "returned" => \A i \in 1..Len(csv_rows) : WellFormed(csv_rows[i])

(***************************************************************************)
(* Properties of remove_duplicate_cam                                      *)
(***************************************************************************)
Lines(text) == SplitLines(text, <<>>)

\* the lines without every later occurrence of an earlier line
RECURSIVE FirstOccurrences(_, _)
FirstOccurrences(lines, i) ==
    IF i > Len(lines) THEN <<>>
    ELSE (IF \E j \in 1..(i - 1) : lines[j] = lines[i] THEN <<>> ELSE <<lines[i]>>)
             \o FirstOccurrences(lines, i + 1)

OnePurgedOneLeft(cs) ==
    /\ Len(cs) = 2
    /\ cs[1].pseudo_id # cs[2].pseudo_id
    /\ cs[2].timestamp > cs[1].timestamp + threshold

\* C11: calculate_degree_of_anonymity returns -1 exactly when the final
\* anonymity set has at most one member; after A's only CAM and B's only CAM
\* more than the threshold later the set holds B alone, EASS is 0 and the
\* degree is -1.
C11_SentinelIffAtMostOne ==
    anon_pc = "done" =>
        /\ (degree_of_anon[1] = Sentinel) <=> (Len(anonymity_set) <= 1)
        /\ OnePurgedOneLeft(anon_cams) =>
               /\ anonymity_set = <<[pseudo_id |-> anon_cams[2].pseudo_id, n |-> 1,
                                     t |-> anon_cams[2].timestamp]>>
               /\ eass[1].m = <<>>
               /\ degree_of_anon[1] = Sentinel

C11_Witness ==
    /\ anon_pc = "done"
    /\ OnePurgedOneLeft(anon_cams)
    /\ Keys(anonymity_set) = {anon_cams[2].pseudo_id}
    /\ degree_of_anon[1] = Sentinel

\* C12: for a non-empty anonymity set 0 <= EASS <= log2(number of entries),
\* and with more than one entry the degree of anonymity lies within [0, 1].
C12_EassWithinBounds ==
    anon_pc = "done" =>
        /\ FloatLe(FloatZero(0), eass[1])
        /\ FloatLe(eass[1], math_log2(FloatOfNat(Len(anonymity_set))))
        /\ Len(anonymity_set) > 1 =>
               /\ FloatLe(FloatZero(0), degree_of_anon[1])
               /\ FloatLe(degree_of_anon[1], FloatOfNat(1))

(***************************************************************************)
(* Properties of the pseudonym consumption                                 *)
(***************************************************************************)
\* write_stats has returned or raised
StatsSettled == cons_pc \notin {"idle", "calculate", "write"}

\* C13: with at least two vehicles and a positive simulation time write_stats
\* completes and writes min, max, median, mean and stdev; with fewer than two
\* vehicles it raises and writes no stats file.
C13_StatsEmittedFromTwoVehicles ==
    StatsSettled =>
        /\ (Len(pseudonym_consumption) >= 2 /\ sim_time > 0) =>
               /\ cons_pc = "written"
               /\ Len(stats_file) = 1
        /\ Len(pseudonym_consumption) < 2 =>
               /\ cons_pc \in {"ValueError", "StatisticsError"}
               /\ stats_file = <<>>

\* C14: calculate_pseudonym_consumption returns one entry per distinct
\* permanent id, whose value is the number of distinct pseudonym ids seen for
\* that id divided by sim_time.
C14_DistinctPseudonymsPerSimTime ==
    cons_pc \notin {"idle", "calculate"} =>
        LET sids == {cons_cams[i].static_id : i \in 1..Len(cons_cams)}
        IN  /\ Len(pseudonym_consumption) = Cardinality(sids)
            /\ {pseudonym_consumption[k].static_id :
                    k \in 1..Len(pseudonym_consumption)} = sids
            /\ \A k \in 1..Len(pseudonym_consumption) :
                   LET e == pseudonym_consumption[k]
                   IN  /\ e.den = sim_time
                       /\ e.num = Cardinality({pid \in PseudoIds :
                                      \E i \in 1..Len(cons_cams) :
                                          /\ cons_cams[i].static_id = e.static_id
                                          /\ cons_cams[i].pseudo_id = pid})

\* two vehicles, one of them with the same pseudonym in two CAMs
C14_Witness ==
    /\ cons_pc = "write"
    /\ Len(cons_cams) = 4
    /\ Len(pseudonym_consumption) = 2
    /\ \E i, j \in 1..Len(cons_cams) :
           /\ i # j
           /\ cons_cams[i] = cons_cams[j]
    /\ \E k \in 1..2 : pseudonym_consumption[k].num = 2

(***************************************************************************)
(* Properties of the matching of a CAM against the candidate tracks        *)
(***************************************************************************)
\* the candidate tracks, in insertion order, that accept the CAM by
\* pseudonym or by shape and continuity
Accepting(cam, dynamic_vehs) ==
    {i \in 1..Len(dynamic_vehs) :
        \/ Last(dynamic_vehs[i].pseudo_id) = cam.pseudo_id
        \/ /\ dynamic_vehs[i].width = cam.width
           /\ dynamic_vehs[i].length = cam.length
           /\ compare_position(dynamic_vehs[i], cam)}

\* C15: a CAM modifies at most one candidate track, the earliest one in
\* insertion order that accepts it, and a new track is created exactly when
\* no existing track accepts it.
C15_GreedyFirstMatch ==
    [][Len(cams') = Len(cams) + 1 =>
          LET cam == Last(cams')
              acc == Accepting(cam, dynamic_vehicles)
              n   == Len(dynamic_vehicles)
          IN  /\ (Len(dynamic_vehicles') = n + 1) <=> (acc = {})
              /\ Len(dynamic_vehicles') \in {n, n + 1}
              /\ acc = {} =>
                     /\ SubSeq(dynamic_vehicles', 1, n) = dynamic_vehicles
                     /\ dynamic_vehicles'[n + 1].timestamps = <<cam.timestamp>>
                     /\ dynamic_vehicles'[n + 1].pseudo_id = <<cam.pseudo_id>>
              /\ acc # {} =>
                     \E k \in acc :
                         /\ \A j \in acc : k <= j
                         /\ \A j \in 1..n : j # k =>
                                dynamic_vehicles'[j] = dynamic_vehicles[j]
                         /\ dynamic_vehicles'[k].timestamps =
                                Append(dynamic_vehicles[k].timestamps, cam.timestamp)
                         /\ dynamic_vehicles'[k].pseudo_id =
                                Append(dynamic_vehicles[k].pseudo_id, cam.pseudo_id)
      ]_vars

\* the third CAM is accepted by both tracks (by continuity by the first, by
\* pseudonym by the second) and is attached to the first
C15_Witness ==
    /\ Len(cams) = 3
    /\ Len(dynamic_vehicles) = 2
    /\ Len(dynamic_vehicles[1].timestamps) = 2
    /\ Len(dynamic_vehicles[2].timestamps) = 1
    /\ Last(dynamic_vehicles[1].pseudo_id) = cams[3].pseudo_id
    /\ dynamic_vehicles[1].pseudo_id[1] # cams[3].pseudo_id
    /\ Last(dynamic_vehicles[2].pseudo_id) = cams[3].pseudo_id

\* the candidate track that received the CAM of a build_routes step
Receiver(dynamic_vehs_before, dynamic_vehs_after) ==
    {k \in 1..Len(dynamic_vehs_before) :
        dynamic_vehs_after[k] # dynamic_vehs_before[k]}

\* C16: a CAM whose pseudo_id differs from a candidate track's last pseudonym
\* is attached to that track only if its (width, length) equals the track's
\* and the continuity test passes.
C16_ShapeGate ==
    [][Len(cams') = Len(cams) + 1 =>
          \A k \in Receiver(dynamic_vehicles, dynamic_vehicles') :
              LET cam == Last(cams')
              IN  cam.pseudo_id # Last(dynamic_vehicles[k].pseudo_id) =>
                      /\ cam.width = dynamic_vehicles[k].width
                      /\ cam.length = dynamic_vehicles[k].length
                      /\ compare_position(dynamic_vehicles[k], cam)
      ]_vars

\* a CAM of a new pseudonym and the track's shape was attached to the track,
\* and one of a new pseudonym and another width at the same place was not
C16_Witness ==
    /\ Len(cams) = 3
    /\ Len(dynamic_vehicles) = 2
    /\ dynamic_vehicles[1].pseudo_id = <<7, 9>>
    /\ cams[2].width = dynamic_vehicles[1].width
    /\ cams[3].pseudo_id = 7
    /\ cams[3].width # dynamic_vehicles[1].width
    /\ cams[3].longitude = cams[2].longitude
    /\ cams[3].timestamp = cams[2].timestamp

\* C17: a candidate track always holds the most recent width and length: they
\* equal those of the last CAM appended to the track.
C17_TrackHoldsLatestShape ==
    [][Len(cams') = Len(cams) + 1 =>
          \A k \in Receiver(dynamic_vehicles, dynamic_vehicles') :
              /\ dynamic_vehicles'[k].width = Last(cams').width
              /\ dynamic_vehicles'[k].length = Last(cams').length
      ]_vars

(***************************************************************************)
(* Properties of get_trace_duration                                        *)
(***************************************************************************)
\* the first index at which the two sequences hold different positions, one
\* past the shorter sequence if there is none
FirstDifference(original_positions, traced_positions) ==
    LET n    == Min(Len(original_positions), Len(traced_positions))
        diff == {i \in 1..n : \/ original_positions[i].longitude
                                     # traced_positions[i].longitude
                                \/ original_positions[i].latitude
                                     # traced_positions[i].latitude}
    IN  IF diff = {} THEN n + 1 ELSE CHOOSE i \in diff : \A j \in diff : i <= j

\* the ground-truth timestamp deltas of the indices before index d, summed
RECURSIVE DeltasBefore(_, _)
DeltasBefore(original_positions, d) ==
    IF d <= 2 THEN 0
    ELSE DeltasBefore(original_positions, d - 1)
             + (original_positions[d - 1].timestamp
                - original_positions[d - 2].timestamp)

\* C18: get_trace_duration returns the sum of the successive ground-truth
\* timestamp deltas up to the first index at which ground-truth and candidate
\* position differ by longitude or latitude; a candidate that differs at the
\* first index gets duration 0.
C18_DurationUpToFirstDifference ==
    duration_result # <<>> =>
        LET original_positions == duration_probe[1].original_positions
            traced_positions   == duration_probe[1].traced_positions
        IN  duration_result[1] =
                DeltasBefore(original_positions,
                             FirstDifference(original_positions, traced_positions))

(***************************************************************************)
(* Properties of get_vehicle_traces                                        *)
(***************************************************************************)
AtLeastTwoTimestamps(track) ==
    \E i, j \in 1..Len(track.timestamps) : track.timestamps[i] # track.timestamps[j]

\* the candidate tracks of permanent id X with two distinct timestamps, in
\* creation order
FragmentTracks(X) ==
    SelectSeq(dynamic_vehicles,
              LAMBDA t : t.static_id = X /\ AtLeastTwoTimestamps(t))

\* the permanent ids with a ground-truth track among `considered` that has two
\* distinct timestamps, and a candidate track that has
Traceable(considered) ==
    {X \in StaticIds :
        /\ \E i \in 1..Len(considered) :
               considered[i].static_id = X /\ AtLeastTwoTimestamps(considered[i])
        /\ FragmentTracks(X) # <<>>}

\* one trace per id of `ids`, its fragments the fragment tracks of that id
TracesAreOf(ids) ==
    /\ {traces[i].static_id : i \in 1..Len(traces)} = ids
    /\ Len(traces) = Cardinality(ids)
    /\ \A i \in 1..Len(traces) :
           LET parts  == traces[i].reconstructed_traces
               tracks == FragmentTracks(traces[i].static_id)
           IN  /\ Len(parts) = Len(tracks)
               /\ Len(parts) >= 1
               /\ \A j \in 1..Len(parts) :
                      /\ parts[j].pseudo_ids = tracks[j].pseudo_id
                      /\ parts[j].positions = get_positions(tracks[j])
                      /\ \E a, b \in 1..Len(parts[j].positions) :
                             parts[j].positions[a].timestamp
                                 # parts[j].positions[b].timestamp

\* C19: get_vehicle_traces returns a trace for permanent id X if and only if
\* X's ground-truth track has at least two distinct timestamps and at least
\* one candidate track with static id X has; the fragments are exactly those
\* candidate tracks, in creation order.
C19_TraceIffTraceable ==
    phase = "traced" => TracesAreOf(Traceable(static_vehicles))

\* C19, amended: the same for the ground-truth tracks among the first
\* max_vehicles in creation order, all of them when max_vehicles is not given.
C19_TraceIffTraceableWithinMax ==
    phase = "traced" => TracesAreOf(Traceable(Slice(static_vehicles, max_vehicles)))

\* both vehicles are traceable, the call is limited to one vehicle and
\* returns the first only
C19_Witness ==
    /\ phase = "traced"
    /\ max_vehicles = <<1>>
    /\ Cardinality(Traceable(static_vehicles)) = 2
    /\ Len(traces) = 1
    /\ traces[1].static_id = static_vehicles[1].static_id

(***************************************************************************)
(* Properties of the anonymity set                                         *)
(***************************************************************************)
\* the timestamp of the most recent CAM of a pseudonym in the stream
MostRecent(cs, pseudo_id) ==
    LET sent == {i \in 1..Len(cs) : cs[i].pseudo_id = pseudo_id}
    IN  cs[CHOOSE i \in sent : \A j \in sent : j <= i].timestamp

\* C20: after the scan of a stream with non-decreasing timestamps the
\* anonymity set contains exactly the pseudonyms whose most recent CAM is at
\* most the purge threshold older than the last CAM; no entry is older than
\* the threshold and each entry stores the timestamp of its pseudonym's most
\* recent CAM.
C20_ExactlyTheRecentPseudonyms ==
    (anon_pc \in {"entropy", "degree", "done"} /\ anon_cams # <<>>) =>
        LET now == Last(anon_cams).timestamp
        IN  /\ Keys(anonymity_set) =
                   {pid \in {anon_cams[i].pseudo_id : i \in 1..Len(anon_cams)} :
                       now - MostRecent(anon_cams, pid) <= threshold}
            /\ \A k \in 1..Len(anonymity_set) :
                   /\ now - anonymity_set[k].t <= threshold
                   /\ anonymity_set[k].t =
                          MostRecent(anon_cams, anonymity_set[k].pseudo_id)
            /\ \A k, l \in 1..Len(anonymity_set) :
                   anonymity_set[k].pseudo_id = anonymity_set[l].pseudo_id => k = l

\* one pseudonym was purged, one was refreshed by a second CAM and kept
C20_Witness ==
    /\ anon_pc = "entropy"
    /\ Len(anon_cams) = 4
    /\ Cardinality({anon_cams[i].pseudo_id : i \in 1..4}) = 3
    /\ Len(anonymity_set) = 2
    /\ \E k \in 1..2 : /\ anonymity_set[k].n = 2
                       /\ anonymity_set[k].t > anon_cams[1].timestamp

\* the CAMs of the stream sent under a pseudonym, as indices
SentUnder(cs, pseudo_id) == {i \in 1..Len(cs) : cs[i].pseudo_id = pseudo_id}

\* the purge pass runs at the i-th CAM: its timestamp is not that of the
\* previous purge, which is 0 before the first CAM
PurgeRunsAt(cs, i) ==
    cs[i].timestamp # (IF i = 1 THEN 0 ELSE cs[i - 1].timestamp)

\* the indices at which a purge pass finds the pseudonym outdated
OutdatedAt(cs, pseudo_id) ==
    {i \in 1..Len(cs) :
        /\ PurgeRunsAt(cs, i)
        /\ \E j \in SentUnder(cs, pseudo_id) : j <= i
        /\ cs[i].timestamp - MostRecent(SubSeq(cs, 1, i), pseudo_id) > threshold}

\* the CAMs sent under the pseudonym after it was last found outdated
SentSinceLastPurge(cs, pseudo_id) ==
    {i \in SentUnder(cs, pseudo_id) : \A j \in OutdatedAt(cs, pseudo_id) : j < i}

\* C21: for every entry of the set returned by calculate_anonymity_set, the
\* stored count equals the number of CAMs seen under that pseudonym in the
\* scanned stream.
C21_CountIsCamsSeen ==
    anon_pc \in {"entropy", "degree", "done"} =>
        \A k \in 1..Len(anonymity_set) :
            anonymity_set[k].n =
                Cardinality(SentUnder(anon_cams, anonymity_set[k].pseudo_id))

\* C21, amended: the stored count equals the number of CAMs seen under that
\* pseudonym since its entry was last purged (all of them if it never was).
C21_CountIsCamsSeenSincePurge ==
    anon_pc \in {"entropy", "degree", "done"} =>
        \A k \in 1..Len(anonymity_set) :
            anonymity_set[k].n =
                Cardinality(SentSinceLastPurge(anon_cams, anonymity_set[k].pseudo_id))

\* a pseudonym was purged and came back with two CAMs: three CAMs seen, count 2
C21_Witness ==
    /\ anon_pc = "entropy"
    /\ \E k \in 1..Len(anonymity_set) :
           /\ anonymity_set[k].n = 2
           /\ Cardinality(SentUnder(anon_cams, anonymity_set[k].pseudo_id)) = 3
           /\ OutdatedAt(anon_cams, anonymity_set[k].pseudo_id) # {}

\* C22: on a stream with non-decreasing timestamps the purge pass runs at most
\* once per distinct timestamp value, on the first CAM carrying it, and never
\* for a CAM whose timestamp equals the previous purge timestamp.
C22_PurgeOncePerTimestamp ==
    /\ \A a, b \in 1..Len(purge_log) :
           anon_cams[purge_log[a]].timestamp = anon_cams[purge_log[b]].timestamp
               => a = b
    /\ \A a \in 1..Len(purge_log) :
           /\ \A j \in 1..(purge_log[a] - 1) :
                  anon_cams[j].timestamp # anon_cams[purge_log[a]].timestamp
           /\ anon_cams[purge_log[a]].timestamp #
                  (IF a = 1 THEN 0 ELSE anon_cams[purge_log[a - 1]].timestamp)
    /\ last_purge_timestamp =
           (IF purge_log = <<>> THEN 0
            ELSE anon_cams[purge_log[Len(purge_log)]].timestamp)

\* four CAMs on two timestamps, both above 0: two purge passes
C22_Witness ==
    /\ Len(anon_cams) = 4
    /\ anon_cams[1].timestamp = anon_cams[2].timestamp
    /\ anon_cams[3].timestamp = anon_cams[4].timestamp
    /\ purge_log = <<1, 3>>

(***************************************************************************)
(* Properties of the track durations                                       *)
(***************************************************************************)
\* the sum over consecutive timestamps of (new timestamp - previous one)
RECURSIVE SumOfDeltas(_, _)
SumOfDeltas(ts, i) ==
    IF i < 2 THEN 0 ELSE SumOfDeltas(ts, i - 1) + (ts[i] - ts[i - 1])

\* latest timestamp minus earliest timestamp
Span(ts) ==
    LET S == Range(ts)
    IN  (CHOOSE t \in S : \A u \in S : u <= t) - (CHOOSE t \in S : \A u \in S : t <= u)

\* C23: a ground-truth track's and a candidate track's duration is the sum
\* over consecutive appended CAMs of (new timestamp - previous timestamp) in
\* arrival order, negative deltas included; it is not the span between the
\* earliest and the latest timestamp.
C23_DurationIsSumOfDeltas ==
    /\ \A i \in 1..Len(static_vehicles) :
           static_vehicles[i].duration =
               SumOfDeltas(static_vehicles[i].timestamps,
                           Len(static_vehicles[i].timestamps))
    /\ \A i \in 1..Len(dynamic_vehicles) :
           dynamic_vehicles[i].duration =
               SumOfDeltas(dynamic_vehicles[i].timestamps,
                           Len(dynamic_vehicles[i].timestamps))

\* timestamps 100, 0, 100: the deltas -100 and 100 sum to 0, the span is 100
C23_Witness ==
    /\ Len(static_vehicles) = 1
    /\ static_vehicles[1].timestamps = <<100, 0, 100>>
    /\ static_vehicles[1].duration = 0
    /\ Span(static_vehicles[1].timestamps) = 100
    /\ \E i \in 1..Len(dynamic_vehicles) :
           /\ Len(dynamic_vehicles[i].timestamps) >= 2
           /\ dynamic_vehicles[i].duration # Span(dynamic_vehicles[i].timestamps)

\* C28: in every reachable state of build_routes each ground-truth track's and
\* each candidate track's duration equals its last appended timestamp minus
\* its first timestamp, for any order of timestamps; a track with two or more
\* distinct timestamps can so have duration 0 or a negative duration.
C28_DurationTelescopes ==
    /\ \A i \in 1..Len(static_vehicles) :
           static_vehicles[i].duration =
               Last(static_vehicles[i].timestamps) - static_vehicles[i].timestamps[1]
    /\ \A i \in 1..Len(dynamic_vehicles) :
           dynamic_vehicles[i].duration =
               Last(dynamic_vehicles[i].timestamps) - dynamic_vehicles[i].timestamps[1]

\* a ground-truth track with two distinct timestamps and duration 0, and a
\* candidate track with a negative duration
C28_Witness ==
    /\ \E i \in 1..Len(static_vehicles) :
           /\ Cardinality(Range(static_vehicles[i].timestamps)) = 2
           /\ static_vehicles[i].duration = 0
    /\ \E i \in 1..Len(dynamic_vehicles) :
           /\ Cardinality(Range(dynamic_vehicles[i].timestamps)) = 2
           /\ dynamic_vehicles[i].duration < 0

(***************************************************************************)
(* Properties of build_routes                                              *)
(***************************************************************************)
\* the CAMs of the stream that pass the allow-list
Processed(cs, allow) ==
    SelectSeq(cs, LAMBDA cam : allow = <<>> \/ cam.static_id \in Range(allow))

\* the processed CAMs of one permanent id, in stream order
ProcessedOf(cs, allow, X) ==
    SelectSeq(Processed(cs, allow), LAMBDA cam : cam.static_id = X)

\* C24: after build_routes there is exactly one ground-truth track per
\* distinct permanent id among the processed CAMs, and each track's position
\* and timestamp sequence is that of the vehicle's processed CAMs in stream
\* order.
C24_OneGroundTruthTrackPerId ==
    LET processed == Processed(cams, vehicles)
    IN  /\ {static_vehicles[i].static_id : i \in 1..Len(static_vehicles)}
               = {processed[k].static_id : k \in 1..Len(processed)}
        /\ \A i, j \in 1..Len(static_vehicles) :
               static_vehicles[i].static_id = static_vehicles[j].static_id => i = j
        /\ \A i \in 1..Len(static_vehicles) :
               LET own == ProcessedOf(cams, vehicles, static_vehicles[i].static_id)
               IN  /\ static_vehicles[i].timestamps =
                          [k \in 1..Len(own) |-> own[k].timestamp]
                   /\ static_vehicles[i].longitude =
                          [k \in 1..Len(own) |-> own[k].longitude]
                   /\ static_vehicles[i].latitude =
                          [k \in 1..Len(own) |-> own[k].latitude]

\* two vehicles with two CAMs each, interleaved, no allow-list
C24_Witness ==
    /\ vehicles = <<>>
    /\ Len(cams) = 4
    /\ cams[1].static_id # cams[2].static_id
    /\ cams[3].static_id = cams[1].static_id
    /\ cams[4].static_id = cams[2].static_id
    /\ Len(static_vehicles) = 2
    /\ Len(static_vehicles[1].timestamps) = 2
    /\ Len(static_vehicles[2].timestamps) = 2

\* the number of CAMs recorded in a list of tracks
RECURSIVE Recorded(_, _)
Recorded(tracks, i) ==
    IF i > Len(tracks) THEN 0
    ELSE Len(tracks[i].timestamps) + Recorded(tracks, i + 1)

\* C25: with a non-empty allow-list a CAM whose permanent id is not in the
\* list changes neither the ground-truth tracks nor the candidate tracks; with
\* no allow-list every CAM is processed.
C25_AllowListFilter ==
    [][Len(cams') = Len(cams) + 1 =>
          LET cam == Last(cams')
          IN  /\ (vehicles # <<>> /\ cam.static_id \notin Range(vehicles)) =>
                     /\ static_vehicles' = static_vehicles
                     /\ dynamic_vehicles' = dynamic_vehicles
              /\ vehicles = <<>> =>
                     /\ Recorded(static_vehicles', 1) = Recorded(static_vehicles, 1) + 1
                     /\ Recorded(dynamic_vehicles', 1) = Recorded(dynamic_vehicles, 1) + 1
      ]_vars

\* allow-list [1]: a CAM of vehicle 2 arrived after one of vehicle 1 and left
\* no trace in either list
C25_Witness ==
    /\ vehicles = <<1>>
    /\ Len(cams) = 2
    /\ cams[1].static_id = 1
    /\ cams[2].static_id = 2
    /\ Len(static_vehicles) = 1
    /\ Len(dynamic_vehicles) = 1
    /\ static_vehicles[1].timestamps = <<cams[1].timestamp>>
    /\ dynamic_vehicles[1].timestamps = <<cams[1].timestamp>>

\* C26: every step of build_routes leaves a candidate track's pseudonym list
\* unchanged or extends it by exactly one element at the end, and the identity
\* test compares the CAM's pseudonym with the last element of that list.
C26_PseudonymListAppendOnly ==
    [][Len(cams') = Len(cams) + 1 =>
          LET cam     == Last(cams')
              current == {k \in 1..Len(dynamic_vehicles) :
                             Last(dynamic_vehicles[k].pseudo_id) = cam.pseudo_id}
          IN  /\ Len(dynamic_vehicles') >= Len(dynamic_vehicles)
              /\ \A k \in 1..Len(dynamic_vehicles) :
                     \/ dynamic_vehicles'[k].pseudo_id = dynamic_vehicles[k].pseudo_id
                     \/ dynamic_vehicles'[k].pseudo_id =
                            Append(dynamic_vehicles[k].pseudo_id, cam.pseudo_id)
              \* a track whose current identity is the CAM's pseudonym keeps
              \* the CAM from opening a new track or passing on to a later one
              /\ current # {} =>
                     /\ Len(dynamic_vehicles') = Len(dynamic_vehicles)
                     /\ \A r \in Receiver(dynamic_vehicles, dynamic_vehicles') :
                            \A k \in current : r <= k
              \* an earlier pseudonym of a track is not its identity
              /\ \A r \in Receiver(dynamic_vehicles, dynamic_vehicles') :
                     r \in current \/ cam.width = dynamic_vehicles[r].width
      ]_vars

\* a track that went from pseudonym 7 to 9 did not take a CAM of pseudonym 7
\* and the other width: the CAM opened a second track
C26_Witness ==
    /\ Len(cams) = 3
    /\ Len(dynamic_vehicles) = 2
    /\ dynamic_vehicles[1].pseudo_id = <<7, 9>>
    /\ dynamic_vehicles[2].pseudo_id = <<7>>
    /\ dynamic_vehicles[2].width # dynamic_vehicles[1].width

(***************************************************************************)
(* Properties of the parallel evaluation of the traces                     *)
(***************************************************************************)
\* the sum of the traces' first-fragment durations; every evaluated trace of
\* the model has an original duration of 300
RECURSIVE SumOfTracked(_, _)
SumOfTracked(ts, i) ==
    IF i = 0 THEN 0 ELSE SumOfTracked(ts, i - 1) + ts[i].max_tracking_duration

\* C27: the evaluate_trace tasks write only files under the result directory
\* named by their own static id, no file is written by two tasks, and for
\* every interleaving and completion order the reported overall tracking
\* success is the same value, 100 times the mean of the per-vehicle successes.
C27_ReportedSuccessIndependentOfOrder ==
    /\ \A f \in written_files : f.dir = eval_traces[f.by].static_id
    /\ \A f, g \in written_files :
           (f.dir = g.dir /\ f.name = g.name) => f.by = g.by
    /\ eval_pc = "written" =>
           LET n == Len(eval_traces)
               per_vehicle == [i \in 1..n |->
                                  FloatDiv(FloatOfNat(eval_traces[i].max_tracking_duration),
                                           FloatOfNat(eval_traces[i].duration))]
               exact3n == SumOfTracked(eval_traces, n)   \* 3 * n * (100 * mean)
           IN  /\ collected = per_vehicle
               /\ overall = <<FloatMul(FloatDiv(FloatSum(per_vehicle, n), FloatOfNat(n)),
                                       FloatOfNat(100))>>
               /\ FloatLe(FloatOfNat(exact3n \div (3 * n)), FloatAdd(overall[1], FloatOfNat(1)))
               /\ FloatLe(overall[1], FloatOfNat(exact3n \div (3 * n) + 1))

\* three traces of different success whose tasks returned last one first
C27_Witness ==
    /\ eval_pc = "written"
    /\ Len(eval_traces) = 3
    /\ completion_order = <<3, 1, 2>>
    /\ collected[1] # collected[2]
    /\ collected[2] # collected[3]
    /\ collected[1] # collected[3]
    /\ Cardinality(written_files) = 9

(***************************************************************************)
(* Properties of the heading condition                                     *)
(***************************************************************************)
\* C29: the heading condition of the continuity test never rejects: the
\* heading difference is wrapped into [-900, 900) decidegrees and the
\* tolerance is 1080, so compare_position returns true exactly when the
\* position deviation is below the position tolerance.
C29_HeadingNeverRejects ==
    probe_result # <<>> =>
        LET wrapped == (((probe[1].cam.heading - Last(probe[1].self.heading)) + 900)
                            % 1800) - 900
        IN  /\ -900 <= wrapped /\ wrapped < 900
            /\ -HEADING_TOLERANCE < wrapped /\ wrapped < HEADING_TOLERANCE
            /\ probe_result[1] =
                   (PositionDeviation(probe[1].self, probe[1].cam) < POS_ERR_TOLERANCE)

\* a CAM heading three quarter turns away from the route's heading is
\* accepted, and so is one heading the opposite way
C29_Witness ==
    /\ probe_result = <<TRUE>>
    /\ probe[1].cam.heading - Last(probe[1].self.heading) \in {2700, -1800}
    /\ probe[1].cam.speed > 0

(***************************************************************************)
(* Properties of the candidate tracks as a whole                           *)
(***************************************************************************)
\* what a candidate track records of a CAM
Entry(pseudo_id, longitude, latitude, speed, heading, timestamp) ==
    [pseudo_id |-> pseudo_id, longitude |-> longitude, latitude |-> latitude,
     speed |-> speed, heading |-> heading, timestamp |-> timestamp]

EntryOfCam(cam) ==
    Entry(cam.pseudo_id, cam.longitude, cam.latitude, cam.speed, cam.heading,
          cam.timestamp)

EntryOfTrack(track, k) ==
    Entry(track.pseudo_id[k], track.longitude[k], track.latitude[k],
          track.speed[k], track.heading[k], track.timestamps[k])

\* the lists of a track have one length
EqualLengths(track) ==
    \A l \in {Len(track.pseudo_id), Len(track.longitude), Len(track.latitude),
               Len(track.speed), Len(track.heading)} : l = Len(track.timestamps)

\* every CAM content is recorded as often in the tracks as it was processed
RecordedOnce(cs, tracks) ==
    \A j \in 1..Len(cs) :
        Cardinality({i \in 1..Len(cs) : EntryOfCam(cs[i]) = EntryOfCam(cs[j])})
            = Cardinality({p \in {<<t, k>> : t \in 1..Len(tracks), k \in 1..MaxCams} :
                              /\ p[2] <= Len(tracks[p[1]].timestamps)
                              /\ EntryOfTrack(tracks[p[1]], p[2]) = EntryOfCam(cs[j])})

\* C30: after any prefix of the stream every processed CAM is recorded in
\* exactly one candidate track, the entries of all candidate tracks number the
\* processed CAMs, the lists of a track have equal length, and a track's
\* static id stays that of the CAM that created it.
C30_TracksPartitionTheCams ==
    [][Len(cams') = Len(cams) + 1 =>
          LET cam == Last(cams')
              n   == Len(dynamic_vehicles)
          IN  /\ Recorded(dynamic_vehicles', 1) = Len(cams')
              /\ RecordedOnce(cams', dynamic_vehicles')
              /\ \A t \in 1..Len(dynamic_vehicles') : EqualLengths(dynamic_vehicles'[t])
              /\ \A t \in 1..n :
                     dynamic_vehicles'[t].static_id = dynamic_vehicles[t].static_id
              /\ Len(dynamic_vehicles') > n =>
                     /\ dynamic_vehicles'[n + 1].static_id = cam.static_id
                     /\ EntryOfTrack(dynamic_vehicles'[n + 1], 1) = EntryOfCam(cam)
      ]_vars

\* a track created by one vehicle holds a CAM of the other and keeps its
\* static id
C30_Witness ==
    /\ Len(cams) = 3
    /\ Len(dynamic_vehicles) = 2
    /\ cams[2].static_id # cams[1].static_id
    /\ dynamic_vehicles[1].static_id = cams[1].static_id
    /\ EntryOfTrack(dynamic_vehicles[1], 2) = EntryOfCam(cams[2])
    /\ Len(dynamic_vehicles[1].timestamps) = 2
    /\ Len(dynamic_vehicles[2].timestamps) = 1

============================================================================
